---- MODULE Spec2Model ----
(***************************************************************************)
(* Shoreline extraction (CVAs): Otsu threshold estimator, water            *)
(* classifiers, mask cleanup, vectorizer and the per-sensor run functions  *)
(* of the four script generations (1.0.0, 1.0.1, 1.1.0, 2.0.0).            *)
(*                                                                         *)
(* Numbers of the Earth Engine backend are modelled as exact rationals     *)
(* [n, d]; arrays and lists of the backend are 0-based in the scripts and  *)
(* 1-based here (Get0 makes the shift explicit).                           *)
(***************************************************************************)
EXTENDS Integers, Sequences, FiniteSets, TLC

\* ------------------------------------------------------------------------
\* Bounds of the model
\* ------------------------------------------------------------------------
MaxBuckets == 3
MaxCount == 2
MeanValues == {-1, 0, 1, 2, 3}

NPix == 3

Variants == {"v100", "v101", "v110", "v200"}
Methods == {"sentinel1", "sentinel2", "landsat"}
Positions == 1..NPix

VARIABLES
    hist,        \* histogram handed to the estimator
    otsuResult,  \* value the estimator returned
    opc,         \* position of the estimator harness
    variant,     \* script generation under analysis
    state,       \* the global state object of the script
    method,      \* sensor of the classification / run
    scene,       \* composite raster handed to the classifier
    water,       \* mask returned by detectWaterFrom*
    otsuCalls,   \* Otsu estimations made by the last classification
    cpc,         \* position of the classifier harness / outcome of the run
    screen,      \* panel the user is looking at
    mapLayers,   \* layers of the map, bottom first
    pending,     \* callbacks of evaluate() not yet delivered
    runs,        \* runs started so far
    run,         \* the run whose code ran last: id, scene count, calls made
    steps,       \* per run: the calls made and the way it ended, in order
    cleaned,     \* mask the cleanup of vectorizeWaterMask produced
    lines,       \* features vectorizeWaterMask returned
    region,      \* geometry handed to vectorizeWaterMask
    features,    \* polygon features handed to the LineString mapping
    area,        \* geometry.area() in square kilometres
    scale,       \* scale in metres a function returned or passed on
    assetId      \* text of the asset textbox

otsuVars == <<hist, otsuResult, opc>>
classVars == <<variant, state, method, scene, water, otsuCalls, cpc>>
runVars == <<screen, mapLayers, pending, runs, run, steps>>
vecVars == <<cleaned, lines, region, features>>
scaleVars == <<area, scale>>
assetVars == <<assetId>>
vars == <<hist, otsuResult, opc, variant, state, method, scene, water, otsuCalls, cpc,
          screen, mapLayers, pending, runs, run, steps, cleaned, lines, region, features,
          area, scale, assetId>>

\* no run yet
NoRun == [id |-> 0, count |-> -1, calls |-> <<>>]

\* nothing vectorized yet
NoLines == [err |-> FALSE, fs |-> {}]

\* ------------------------------------------------------------------------
\* ee.Number arithmetic, exact
\* ------------------------------------------------------------------------
Abs(x) == IF x < 0 THEN -x ELSE x

RECURSIVE Gcd(_, _)
Gcd(a, b) == IF b = 0 THEN a ELSE Gcd(b, a % b)

Rat(n, d) ==
    IF n = 0 THEN [n |-> 0, d |-> 1]
    ELSE LET s == IF d < 0 THEN -1 ELSE 1
             g == Gcd(Abs(n), Abs(d))
         IN [n |-> (s * n) \div g, d |-> (s * d) \div g]

Num(i) == [n |-> i, d |-> 1]
Zero == Num(0)
One == Num(1)

\* exact sums and products, reduced before multiplying
add(a, b) ==
    Rat(a.n * (b.d \div Gcd(a.d, b.d)) + b.n * (a.d \div Gcd(a.d, b.d)),
        (a.d \div Gcd(a.d, b.d)) * b.d)
subtract(a, b) == add(a, [n |-> -b.n, d |-> b.d])
multiply(a, b) ==
    Rat((a.n \div Gcd(Abs(a.n), b.d)) * (b.n \div Gcd(Abs(b.n), a.d)),
        (a.d \div Gcd(Abs(b.n), a.d)) * (b.d \div Gcd(Abs(a.n), b.d)))
\* ee.Number.divide returns 0 for a division by 0
divide(a, b) == IF b.n = 0 THEN Zero ELSE Rat(a.n * b.d, a.d * b.n)
pow2(a) == multiply(a, a)
lt(a, b) == a.n * (b.d \div Gcd(a.d, b.d)) < b.n * (a.d \div Gcd(a.d, b.d))
gt(a, b) == lt(b, a)
lte(a, b) == ~lt(b, a)
gte(a, b) == ~lt(a, b)

\* ------------------------------------------------------------------------
\* ee.Array / ee.List helpers
\* ------------------------------------------------------------------------
Get0(arr, k) == arr[k + 1]
\* array.slice(0, 0, i): the first i elements
Slice0(arr, i) == SubSeq(arr, 1, i)

RECURSIVE SumInts(_)
SumInts(s) == IF s = <<>> THEN 0 ELSE Head(s) + SumInts(Tail(s))

RECURSIVE SumRats(_)
SumRats(s) == IF s = <<>> THEN Zero ELSE add(Head(s), SumRats(Tail(s)))

\* means.multiply(counts)
MultiplyArrays(m, c) == [i \in 1..Len(m) |-> multiply(m[i], Num(c[i]))]

RECURSIVE MaxRat(_)
MaxRat(s) ==
    IF Len(s) = 1 THEN s[1]
    ELSE LET r == MaxRat(Tail(s)) IN IF lt(s[1], r) THEN r ELSE s[1]

\* ee.List.indexOf: 0-based position of the first occurrence
IndexOf(s, x) == (CHOOSE j \in 1..Len(s) : s[j] = x /\ \A k \in 1..(j - 1) : s[k] # x) - 1
\* position of the last occurrence
LastIndexOf(s, x) == (CHOOSE j \in 1..Len(s) : s[j] = x /\ \A k \in (j + 1)..Len(s) : s[k] # x) - 1

\* A value of the backend that fails when evaluated
EEError == [ok |-> FALSE, v |-> Zero]
Value(x) == [ok |-> TRUE, v |-> x]

\* ------------------------------------------------------------------------
\* Otsu threshold estimator
\* ------------------------------------------------------------------------
\* between-sum-of-squares of split index i (below-group [0,i))
bssAt(counts, means, total, sum, mean, i) ==
    LET aCounts == Slice0(counts, i)
        aCount == Num(SumInts(aCounts))
        aMeans == Slice0(means, i)
        aMean == divide(SumRats(MultiplyArrays(aMeans, aCounts)), aCount)
        bCount == subtract(total, aCount)
        bMean == divide(subtract(sum, multiply(aCount, aMean)), bCount)
    IN add(multiply(aCount, pow2(subtract(aMean, mean))),
           multiply(bCount, pow2(subtract(bMean, mean))))

bssList(histDict) ==
    LET counts == histDict.histogram
        means == histDict.bucketMeans
        size == Len(means)
        total == Num(SumInts(counts))
        sum == SumRats(MultiplyArrays(means, counts))
        mean == divide(sum, total)
        indices == [j \in 1..(size - 1) |-> j]
    IN [j \in 1..(size - 1) |-> bssAt(counts, means, total, sum, mean, indices[j])]

otsuLastMax(histDict) ==
    IF Len(histDict.bucketMeans) < 2 THEN EEError
    ELSE LET bss == bssList(histDict)
             maxIndex == LastIndexOf(bss, MaxRat(bss))
         IN Value(Get0(histDict.bucketMeans, maxIndex))

otsuSplitIndex(histDict) ==
    IF Len(histDict.bucketMeans) < 2 THEN EEError
    ELSE LET bss == bssList(histDict)
             maxIndex == IndexOf(bss, MaxRat(bss))
         IN Value(Get0(histDict.bucketMeans, maxIndex + 1))

\* otsu(histDict): the list of splits 1..size-1 is empty for fewer than two
\* buckets and reducing / indexing it fails in the backend
otsu(histDict) ==
    IF Len(histDict.bucketMeans) < 2 THEN EEError
    ELSE LET bss == bssList(histDict)
             maxIndex == IndexOf(bss, MaxRat(bss))
         IN Value(Get0(histDict.bucketMeans, maxIndex))

\* ------------------------------------------------------------------------
\* The global state object
\* ------------------------------------------------------------------------
Null == [null |-> TRUE]
NoResults == [sentinel1 |-> Null, sentinel2 |-> Null, landsat |-> Null]

\* fields every generation has
BaseState ==
    [aoi |-> {}, results |-> NoResults, rawImage |-> Null, cloudCover |-> 5,
     dateRange |-> [start |-> Null, end |-> Null]]

\* settings added by 1.0.1 and kept by the later generations
AdvancedDefaults ==
    [compositeMethod |-> "Median", waterIndex |-> "MNDWI",
     waterBodySizeThreshold |-> 10, smoothingKernelSize |-> 2,
     smoothingIterations |-> 2, coastalBuffer |-> One,
     sarVotesRequired |-> 2, useCustomThreshold |-> FALSE,
     waterThreshold |-> Zero]

Merge(r1, r2) ==
    [f \in (DOMAIN r1) \cup (DOMAIN r2) |-> IF f \in DOMAIN r2 THEN r2[f] ELSE r1[f]]

InitialState(v) ==
    IF v = "v100" THEN BaseState ELSE Merge(BaseState, AdvancedDefaults)

With(st, f, x) == Merge(st, [g \in {f} |-> x])

HasField(st, f) == f \in DOMAIN st

\* ------------------------------------------------------------------------
\* Rasters: one cell per position; m is the mask (valid data) flag
\* ------------------------------------------------------------------------
NoImage == [err |-> FALSE, px |-> <<>>]
\* an image whose computation fails in the backend
ErrImage == [err |-> TRUE, px |-> <<>>]

Bit(b) == IF b THEN One ELSE Zero

select(img, band) ==
    [err |-> img.err,
     px |-> [p \in DOMAIN img.px |-> [v |-> img.px[p][band], m |-> img.px[p].m]]]

\* comparison of an image with a number: 1 where it holds, 0 elsewhere
imgLt(img, t) ==
    IF img.err \/ ~t.ok THEN ErrImage
    ELSE [err |-> FALSE,
          px |-> [p \in DOMAIN img.px |->
                    [v |-> Bit(lt(img.px[p].v, t.v)), m |-> img.px[p].m]]]

imgGt(img, t) ==
    IF img.err \/ ~t.ok THEN ErrImage
    ELSE [err |-> FALSE,
          px |-> [p \in DOMAIN img.px |->
                    [v |-> Bit(gt(img.px[p].v, t.v)), m |-> img.px[p].m]]]

imgGte(img, t) ==
    IF img.err \/ ~t.ok THEN ErrImage
    ELSE [err |-> FALSE,
          px |-> [p \in DOMAIN img.px |->
                    [v |-> Bit(gte(img.px[p].v, t.v)), m |-> img.px[p].m]]]

eq(x, y) == x = y

imgEq(img, t) ==
    IF img.err \/ ~t.ok THEN ErrImage
    ELSE [err |-> FALSE,
          px |-> [p \in DOMAIN img.px |->
                    [v |-> Bit(eq(img.px[p].v, t.v)), m |-> img.px[p].m]]]

\* per-pixel operation of two images, valid where both are valid
imgAdd(a, b) ==
    IF a.err \/ b.err THEN ErrImage
    ELSE [err |-> FALSE,
          px |-> [p \in DOMAIN a.px |->
                    [v |-> add(a.px[p].v, b.px[p].v), m |-> a.px[p].m /\ b.px[p].m]]]

imgDivide(a, b) ==
    IF a.err \/ b.err THEN ErrImage
    ELSE [err |-> FALSE,
          px |-> [p \in DOMAIN a.px |->
                    [v |-> divide(a.px[p].v, b.px[p].v), m |-> a.px[p].m /\ b.px[p].m]]]

\* image.updateMask(mask): valid where both are valid and mask is non-zero
updateMask(img, mask) ==
    IF img.err \/ mask.err THEN ErrImage
    ELSE [err |-> FALSE,
          px |-> [p \in DOMAIN img.px |->
                    [v |-> img.px[p].v,
                     m |-> img.px[p].m /\ mask.px[p].m /\ mask.px[p].v # Zero]]]

\* image.clip(geometry)
clip(img, geometry) ==
    IF img.err THEN ErrImage
    ELSE [err |-> FALSE,
          px |-> [p \in DOMAIN img.px |->
                    [v |-> img.px[p].v, m |-> img.px[p].m /\ p \in geometry]]]

\* image.geometry(): the footprint of the valid data
geometryOf(img) == {p \in DOMAIN img.px : img.px[p].m}

\* 10^x for the whole exponents the rasters produce
RECURSIVE IntPow10(_)
IntPow10(e) == IF e = 0 THEN 1 ELSE 10 * IntPow10(e - 1)
pow10(x) == IF x.n >= 0 THEN Num(IntPow10(x.n)) ELSE Rat(1, IntPow10(-x.n))

\* ee.Image.constant(10).pow(db.divide(10))
toLinear(db) ==
    IF db.err THEN ErrImage
    ELSE [err |-> FALSE,
          px |-> [p \in DOMAIN db.px |->
                    [v |-> pow10(divide(db.px[p].v, Num(10))), m |-> db.px[p].m]]]

\* ------------------------------------------------------------------------
\* reduceRegion(ee.Reducer.histogram): one bucket per distinct value of the
\* valid pixels inside the geometry, ordered by value
\* ------------------------------------------------------------------------
RegionValues(img, geometry) ==
    {img.px[p].v : p \in {q \in DOMAIN img.px : img.px[q].m /\ q \in geometry}}

MinOf(S) == CHOOSE x \in S : \A y \in S : lte(x, y)

RECURSIVE SortRats(_)
SortRats(S) == IF S = {} THEN <<>> ELSE <<MinOf(S)>> \o SortRats(S \ {MinOf(S)})

histogramOf(img, geometry) ==
    LET means == SortRats(RegionValues(img, geometry))
    IN [histogram |->
            [i \in 1..Len(means) |->
                Cardinality({p \in DOMAIN img.px :
                                img.px[p].m /\ p \in geometry /\ img.px[p].v = means[i]})],
        bucketMeans |-> means]

\* ------------------------------------------------------------------------
\* Specification of the estimator on bounded histograms
\* ------------------------------------------------------------------------
IncSeqs(n) == {s \in [1..n -> MeanValues] : \A i \in 1..(n - 1) : s[i] < s[i + 1]}

Histograms ==
    UNION {{[histogram |-> c, bucketMeans |-> [i \in 1..n |-> Num(m[i])]] :
                c \in [1..n -> 0..MaxCount], m \in IncSeqs(n)} : n \in 0..MaxBuckets}

InitOtsu ==
    /\ hist \in Histograms
    /\ otsuResult = EEError
    /\ opc = "hist"
    /\ variant = "v110"
    /\ state = InitialState("v110")
    /\ method = "sentinel1"
    /\ scene = NoImage
    /\ water = NoImage
    /\ otsuCalls = 0
    /\ cpc = "idle"
    /\ screen = "setup"
    /\ mapLayers = <<>>
    /\ pending = {}
    /\ runs = 0
    /\ run = NoRun
    /\ steps = <<>>
    /\ cleaned = [err |-> FALSE, px |-> <<>>]
    /\ lines = NoLines
    /\ region = {}
    /\ features = {}
    /\ area = 0
    /\ scale = 0
    /\ assetId = ""

EstimateThreshold ==
    /\ opc = "hist"
    /\ otsuResult' = otsu(hist)
    /\ opc' = "estimated"
    /\ UNCHANGED <<hist, classVars, runVars, vecVars, scaleVars, assetVars>>

NextHistogram ==
    /\ opc = "estimated"
    /\ hist' \in Histograms
    /\ otsuResult' = EEError
    /\ opc' = "hist"
    /\ UNCHANGED <<classVars, runVars, vecVars, scaleVars, assetVars>>

NextOtsu == EstimateThreshold \/ NextHistogram

SpecOtsu == InitOtsu /\ [][NextOtsu]_vars

\* ------------------------------------------------------------------------
\* Between-class variance, by its definition
\* ------------------------------------------------------------------------
Size(h) == Len(h.bucketMeans)
Total(h) == SumInts(h.histogram)

\* buckets lo..hi-1 (0-based, half-open)
GroupCount(h, lo, hi) == SumInts(SubSeq(h.histogram, lo + 1, hi))
GroupMean(h, lo, hi) ==
    divide(SumRats(MultiplyArrays(SubSeq(h.bucketMeans, lo + 1, hi),
                                  SubSeq(h.histogram, lo + 1, hi))),
           Num(GroupCount(h, lo, hi)))
GlobalMean(h) == GroupMean(h, 0, Size(h))
GroupTerm(h, lo, hi) ==
    IF GroupCount(h, lo, hi) = 0 THEN Zero
    ELSE multiply(Num(GroupCount(h, lo, hi)),
                  pow2(subtract(GroupMean(h, lo, hi), GlobalMean(h))))
BetweenClassVariance(h, i) == add(GroupTerm(h, 0, i), GroupTerm(h, i, Size(h)))
IsMaxSplit(h, i) ==
    \A j \in 1..(Size(h) - 1) : lte(BetweenClassVariance(h, j), BetweenClassVariance(h, i))
FirstMaxSplit(h) ==
    CHOOSE i \in 1..(Size(h) - 1) :
        IsMaxSplit(h, i) /\ \A j \in 1..(i - 1) : ~IsMaxSplit(h, j)
Estimated == opc = "estimated" /\ Size(hist) >= 2 /\ Total(hist) # 0

\* C1 (as stated): for a histogram with at least 2 buckets and non-zero total
\* count the estimator returns bucketMeans[i*], i* the smallest split index
\* in 1..size-1 of maximal between-class variance.
C1_ReturnsMeanAtSplit ==
    Estimated => otsuResult = Value(Get0(hist.bucketMeans, FirstMaxSplit(hist)))

\* C1 (amended): the estimator returns bucketMeans[i* - 1], the mean of the
\* last bucket of the below-group [0, i*) of the first maximal split i*.
C1_ReturnsMeanBelowSplit ==
    Estimated => otsuResult = Value(Get0(hist.bucketMeans, FirstMaxSplit(hist) - 1))

C1_Witness ==
    /\ Estimated
    /\ Size(hist) = 3
    /\ FirstMaxSplit(hist) = 2
    /\ otsuResult = Value(Get0(hist.bucketMeans, 1))

\* A cluster boundary k splits the buckets into a low cluster [0,k) and a
\* high cluster [k,size), both non-empty.
IsClusterBoundary(h, k) ==
    /\ k \in 1..(Size(h) - 1)
    /\ GroupCount(h, 0, k) > 0
    /\ GroupCount(h, k, Size(h)) > 0

\* C2 (as stated): whenever every bucket of the low cluster lies below every
\* bucket of the high cluster, the estimate lies between the weighted means
\* of the two clusters.
C2_BetweenClusterMeans ==
    Estimated =>
        \A k \in 1..(Size(hist) - 1) :
            IsClusterBoundary(hist, k) =>
                /\ lte(GroupMean(hist, 0, k), otsuResult.v)
                /\ lte(otsuResult.v, GroupMean(hist, k, Size(hist)))

\* C2 (amended): when the cluster boundary is the first split of maximal
\* between-class variance, the estimate is at least the weighted mean of the
\* low cluster and strictly below the weighted mean of the high cluster.
C2_BetweenMeansAtOtsuSplit ==
    Estimated =>
        \A k \in 1..(Size(hist) - 1) :
            (IsClusterBoundary(hist, k) /\ k = FirstMaxSplit(hist)) =>
                /\ otsuResult.ok
                /\ lte(GroupMean(hist, 0, k), otsuResult.v)
                /\ lt(otsuResult.v, GroupMean(hist, k, Size(hist)))

C2_Witness ==
    /\ Estimated
    /\ Size(hist) = 3
    /\ IsClusterBoundary(hist, 2)
    /\ FirstMaxSplit(hist) = 2
    /\ hist.histogram[1] > 0 /\ hist.histogram[2] > 0
    /\ lt(GroupMean(hist, 0, 2), otsuResult.v)

\* ------------------------------------------------------------------------
\* Water classifiers
\* ------------------------------------------------------------------------
\* outcome of a classifier call: the mask, whether the call threw, and the
\* number of Otsu estimations it requested
Classified(mask, n) == [thrown |-> FALSE, mask |-> mask, otsu |-> n]
Thrown == [thrown |-> TRUE, mask |-> ErrImage, otsu |-> 0]

getOtsuThreshold(img, geometry) == otsu(histogramOf(img, geometry))

\* band.lt(getOtsuThreshold(image, band))
bandWater(db, st) == imgLt(db, getOtsuThreshold(db, st.aoi))

\* vvLinear.divide(vhLinear)
ratioOf(image) == imgDivide(toLinear(select(image, "VV")), toLinear(select(image, "VH")))

\* ratio.gt(getOtsuThreshold(ratio, 'ratio'))
ratioWater(ratio, st) == imgGt(ratio, getOtsuThreshold(ratio, st.aoi))

\* vvWater.add(vhWater).add(ratioWater)
SarVotes(image, st) ==
    imgAdd(imgAdd(bandWater(select(image, "VV"), st), bandWater(select(image, "VH"), st)),
           ratioWater(ratioOf(image), st))

\* waterMask.updateMask(waterMask)
selfMasked(waterMask) == updateMask(waterMask, waterMask)

voteTestStrict(v, votes, st) ==
    IF v = "v100" THEN imgGt(votes, Value(One))
    ELSE imgGt(votes, Value(Num(st.sarVotesRequired)))

voteTestExact(v, votes, st) ==
    IF v = "v100" THEN imgGt(votes, Value(One))
    ELSE imgEq(votes, Value(Num(st.sarVotesRequired)))

\* 1.0.0: .gt(1); later generations: .gte(state.sarVotesRequired)
voteTest(v, votes, st) ==
    IF v = "v100" THEN imgGt(votes, Value(One))
    ELSE imgGte(votes, Value(Num(st.sarVotesRequired)))

detectWaterFromSARStrict(v, image, st) ==
    Classified(selfMasked(voteTestStrict(v, SarVotes(image, st), st)), 3)

detectWaterFromSARExact(v, image, st) ==
    Classified(selfMasked(voteTestExact(v, SarVotes(image, st), st)), 3)

detectWaterFromSAR(v, image, st) ==
    Classified(selfMasked(voteTest(v, SarVotes(image, st), st)), 3)

\* image.normalizedDifference([a, b]): (a - b) / (a + b), masked where an
\* input is negative
normalizedDifference(c, a, b) ==
    [v |-> divide(subtract(c[a], c[b]), add(c[a], c[b])),
     m |-> c.m /\ gte(c[a], Zero) /\ gte(c[b], Zero)]

\* 4 * (GREEN - SWIR1) - (0.25 * NIR + 2.75 * SWIR2)
AweiNsh(green, swir1, nir, swir2) ==
    subtract(multiply(Num(4), subtract(green, swir1)),
             add(multiply(Rat(1, 4), nir), multiply(Rat(11, 4), swir2)))

\* BLUE + 2.5 * GREEN - 1.5 * (NIR + SWIR1) - 0.25 * SWIR2
AweiSh(blue, green, nir, swir1, swir2) ==
    subtract(subtract(add(blue, multiply(Rat(5, 2), green)),
                      multiply(Rat(3, 2), add(nir, swir1))),
             multiply(Rat(1, 4), swir2))

IndexNames == {"Band8", "NDWI", "MNDWI", "AWEInsh", "AWEIsh", "SMBWI", "WRI", "NDWI2"}

IndexCell(c, indexName) ==
    CASE indexName = "Band8" -> [v |-> c.B8, m |-> c.m]
      [] indexName = "NDWI" -> normalizedDifference(c, "B3", "B8")
      [] indexName = "MNDWI" -> normalizedDifference(c, "B3", "B11")
      [] indexName = "AWEInsh" -> [v |-> AweiNsh(c.B3, c.B11, c.B8, c.B12), m |-> c.m]
      [] indexName = "AWEIsh" -> [v |-> AweiSh(c.B2, c.B3, c.B8, c.B11, c.B12), m |-> c.m]
      [] indexName = "SMBWI" ->
            [v |-> divide(add(add(c.B2, c.B3), c.B4), add(add(c.B8, c.B11), c.B12)),
             m |-> c.m]
      [] indexName = "WRI" -> [v |-> divide(add(c.B3, c.B4), add(c.B8, c.B11)), m |-> c.m]
      [] indexName = "NDWI2" -> normalizedDifference(c, "B8", "B11")
      [] OTHER -> normalizedDifference(c, "B3", "B11")

calculateWaterIndex(image, indexName) ==
    IF image.err THEN ErrImage
    ELSE [err |-> FALSE, px |-> [p \in DOMAIN image.px |-> IndexCell(image.px[p], indexName)]]

\* Band8: water below the threshold; every other index: water above it
applySign(waterIndex, indexName, t) ==
    IF indexName = "Band8" THEN imgLt(waterIndex, t) ELSE imgGt(waterIndex, t)

OtsuOptical(waterIndex, indexName, st) ==
    Classified(applySign(waterIndex, indexName, getOtsuThreshold(waterIndex, st.aoi)), 1)

\* 1.0.0 has no custom threshold; 1.0.1 and 1.1.0 compare with gt on the
\* custom path whatever the index; 2.0.0 applies the Band8 rule there too
opticalMask(v, waterIndex, indexName, st) ==
    IF v # "v100" /\ st.useCustomThreshold
    THEN IF v = "v200"
         THEN Classified(applySign(waterIndex, indexName, Value(st.waterThreshold)), 0)
         ELSE Classified(imgGt(waterIndex, Value(st.waterThreshold)), 0)
    ELSE OtsuOptical(waterIndex, indexName, st)

detectWaterFromOpticalAlwaysOtsu(v, image, indexName, st) ==
    OtsuOptical(calculateWaterIndex(image, indexName), indexName, st)

detectWaterFromOptical(v, image, indexName, st) ==
    opticalMask(v, calculateWaterIndex(image, indexName), indexName, st)

\* 2.0.0 calls otsuThreshold, which no file defines: the call throws
aweiImage(image) ==
    IF image.err THEN ErrImage
    ELSE [err |-> FALSE,
          px |-> [p \in DOMAIN image.px |->
                    [v |-> AweiNsh(image.px[p].SR_B3, image.px[p].SR_B6,
                                   image.px[p].SR_B5, image.px[p].SR_B7),
                     m |-> image.px[p].m]]]

\* awei.gt(threshold), the histogram taken over image.geometry()
aweiWater(awei, geometry) == imgGt(awei, getOtsuThreshold(awei, geometry))

detectWaterFromLandsat(v, image, st) ==
    IF v = "v200" THEN Thrown
    ELSE Classified(aweiWater(aweiImage(image), geometryOf(image)), 1)

\* the index name the run passes: state.waterIndex || 'MNDWI' in 1.0.0
WaterIndexArg(v, st) ==
    IF v = "v100" /\ ~HasField(st, "waterIndex") THEN "MNDWI" ELSE st.waterIndex

detectWater(v, m, image, st) ==
    CASE m = "sentinel1" -> detectWaterFromSAR(v, image, st)
      [] m = "sentinel2" -> detectWaterFromOptical(v, image, WaterIndexArg(v, st), st)
      [] m = "landsat" -> detectWaterFromLandsat(v, image, st)

\* ------------------------------------------------------------------------
\* Specification of the classifiers on bounded rasters
\* ------------------------------------------------------------------------
S1Pixels ==
    {[VV |-> Num(-20), VH |-> Num(-30), m |-> TRUE],
     [VV |-> Num(-10), VH |-> Num(-10), m |-> TRUE],
     [VV |-> Num(10), VH |-> Num(20), m |-> TRUE],
     [VV |-> Num(-20), VH |-> Num(-10), m |-> TRUE]}

S2Pixels ==
    {[B2 |-> Rat(1, 10), B3 |-> Rat(13, 10), B4 |-> Rat(1, 10),
      B8 |-> Rat(3, 10), B11 |-> Rat(7, 10), B12 |-> Rat(1, 10), m |-> TRUE],
     [B2 |-> Rat(1, 5), B3 |-> Rat(2, 5), B4 |-> Rat(1, 5),
      B8 |-> Rat(-1, 5), B11 |-> Rat(3, 5), B12 |-> Rat(1, 5), m |-> TRUE],
     [B2 |-> Zero, B3 |-> One, B4 |-> Zero,
      B8 |-> Zero, B11 |-> One, B12 |-> Zero, m |-> TRUE]}

LandsatPixels ==
    {[SR_B3 |-> Num(2), SR_B5 |-> Zero, SR_B6 |-> Zero, SR_B7 |-> Zero, m |-> TRUE],
     [SR_B3 |-> One, SR_B5 |-> Num(4), SR_B6 |-> Num(2), SR_B7 |-> Zero, m |-> TRUE],
     [SR_B3 |-> One, SR_B5 |-> Zero, SR_B6 |-> One, SR_B7 |-> Zero, m |-> TRUE]}

PixelsOf(m) ==
    CASE m = "sentinel1" -> S1Pixels
      [] m = "sentinel2" -> S2Pixels
      [] m = "landsat" -> LandsatPixels

Rasters(m) == {[err |-> FALSE, px |-> f] : f \in [Positions -> PixelsOf(m)]}

\* values of the sliders and checkboxes of the advanced settings panel
ThresholdValues == {Zero, Rat(1, 10)}
\* a slider that would also offer four votes
VotesUpToFour == {1, 2, 3, 4}
VoteValues == {1, 2, 3}

\* settings the user can have made before a classification with method m
\* the water indices a generation lets the user choose: 1.0.1 never shows
\* the water-index panel, so the index stays the default
IndexChoices(v) == IF v = "v101" THEN {"MNDWI"} ELSE IndexNames

Settings(v, m) ==
    IF v = "v100"
    THEN IF m = "sentinel2"
         THEN {InitialState(v)} \cup {With(InitialState(v), "waterIndex", n) : n \in IndexNames}
         ELSE {InitialState(v)}
    ELSE CASE m = "sentinel1" ->
                {With(InitialState(v), "sarVotesRequired", k) : k \in VoteValues}
           [] m = "sentinel2" ->
                {Merge(InitialState(v),
                       [waterIndex |-> n, useCustomThreshold |-> c, waterThreshold |-> t]) :
                    n \in IndexChoices(v), c \in BOOLEAN, t \in ThresholdValues}
           [] m = "landsat" ->
                {Merge(InitialState(v), [useCustomThreshold |-> c, waterThreshold |-> t]) :
                    c \in BOOLEAN, t \in ThresholdValues}

InitClassify ==
    /\ hist = [histogram |-> <<>>, bucketMeans |-> <<>>]
    /\ otsuResult = EEError
    /\ opc = "idle"
    /\ variant \in Variants
    /\ method \in Methods
    /\ \E st \in Settings(variant, method), a \in SUBSET Positions :
          state = With(st, "aoi", a)
    /\ scene \in Rasters(method)
    /\ water = NoImage
    /\ otsuCalls = 0
    /\ cpc = "ready"
    /\ screen = "setup"
    /\ mapLayers = <<>>
    /\ pending = {}
    /\ runs = 0
    /\ run = NoRun
    /\ steps = <<>>
    /\ cleaned = [err |-> FALSE, px |-> <<>>]
    /\ lines = NoLines
    /\ region = {}
    /\ features = {}
    /\ area = 0
    /\ scale = 0
    /\ assetId = ""

Classify(m) ==
    /\ cpc = "ready"
    /\ method = m
    /\ \E r \in {detectWater(variant, m, scene, state)} :
          /\ water' = r.mask
          /\ otsuCalls' = r.otsu
          /\ cpc' = IF r.thrown THEN "thrown" ELSE "classified"
    /\ UNCHANGED <<otsuVars, vecVars, scaleVars, assetVars, variant, state, method, scene, runVars>>

ClassifySAR == Classify("sentinel1")
ClassifyOptical == Classify("sentinel2")
ClassifyLandsat == Classify("landsat")

NextClassify == ClassifySAR \/ ClassifyOptical \/ ClassifyLandsat

SpecClassify == InitClassify /\ [][NextClassify]_vars

\* ------------------------------------------------------------------------
\* Properties of the classifiers
\* ------------------------------------------------------------------------
IsWater(mask, p) == ~mask.err /\ mask.px[p].m /\ mask.px[p].v = One
WaterSet(mask) == IF mask.err THEN {} ELSE {p \in DOMAIN mask.px : IsWater(mask, p)}

Linear(db) == pow10(divide(db, Num(10)))
RatioOf(c) == divide(Linear(c.VV), Linear(c.VH))
RatioImage ==
    [err |-> FALSE,
     px |-> [p \in DOMAIN scene.px |-> [v |-> RatioOf(scene.px[p]), m |-> scene.px[p].m]]]

VVOtsu == otsu(histogramOf(select(scene, "VV"), state.aoi))
VHOtsu == otsu(histogramOf(select(scene, "VH"), state.aoi))
RatioOtsu == otsu(histogramOf(RatioImage, state.aoi))

\* the indicators that are true at pixel p
Indicators(p) ==
    {k \in {"vv", "vh", "ratio"} :
        \/ k = "vv" /\ lt(scene.px[p].VV, VVOtsu.v)
        \/ k = "vh" /\ lt(scene.px[p].VH, VHOtsu.v)
        \/ k = "ratio" /\ gt(RatioOf(scene.px[p]), RatioOtsu.v)}
VoteCount(p) == Cardinality(Indicators(p))

SarClassified ==
    /\ cpc = "classified"
    /\ method = "sentinel1"
    /\ VVOtsu.ok /\ VHOtsu.ok /\ RatioOtsu.ok

\* C4 (as stated): in every variant a SAR pixel is water exactly when the
\* number of true indicators (VV below its Otsu threshold, VH below its
\* Otsu threshold, linear VV/VH above its Otsu threshold) is at least the
\* SAR vote threshold configured in the state object.
C4_VotesAtLeastConfigured ==
    SarClassified =>
        \A p \in Positions :
            IsWater(water, p) <=>
                (HasField(state, "sarVotesRequired") /\ VoteCount(p) >= state.sarVotesRequired)

\* 1.0.0 has no vote setting and requires more than one vote
RequiredVotes == IF variant = "v100" THEN 2 ELSE state.sarVotesRequired

\* C4 (amended): a SAR pixel is water exactly when the number of true
\* indicators is at least state.sarVotesRequired in 1.0.1, 1.1.0 and 2.0.0,
\* and at least two in 1.0.0, which has no vote setting.
C4_VotesAtLeastRequired ==
    SarClassified =>
        \A p \in Positions : IsWater(water, p) <=> VoteCount(p) >= RequiredVotes

C4_Witness ==
    /\ SarClassified
    /\ variant # "v100"
    /\ state.sarVotesRequired = 3
    /\ \E p, q \in Positions :
          /\ VoteCount(p) = 3 /\ IsWater(water, p)
          /\ VoteCount(q) \in {1, 2} /\ ~IsWater(water, q)

SarWaterAt(t) ==
    WaterSet(detectWaterFromSAR(variant, scene, With(state, "sarVotesRequired", t)).mask)

\* C5: on the same SAR raster the water set never grows when the vote
\* threshold rises: the set at 1 contains the set at 2, which contains the
\* set at 3, and the set the classifier returned sits between the sets of
\* the lower and of the higher thresholds.
C5_VoteMonotone ==
    (cpc = "classified" /\ method = "sentinel1") =>
        /\ SarWaterAt(3) \subseteq SarWaterAt(2)
        /\ SarWaterAt(2) \subseteq SarWaterAt(1)
        /\ \A t \in VoteValues :
              /\ t <= RequiredVotes => WaterSet(water) \subseteq SarWaterAt(t)
              /\ t >= RequiredVotes => SarWaterAt(t) \subseteq WaterSet(water)

C5_Witness ==
    /\ cpc = "classified"
    /\ method = "sentinel1"
    /\ variant # "v100"
    /\ state.sarVotesRequired = 1
    /\ SarWaterAt(3) # {}
    /\ SarWaterAt(3) # WaterSet(water)
    /\ SarWaterAt(1) = WaterSet(water)

OpticalClassified ==
    /\ cpc = "classified"
    /\ method = "sentinel2"
    /\ variant # "v100"

IndexAt(p) == calculateWaterIndex(scene, state.waterIndex).px[p]

AppliedThreshold ==
    IF state.useCustomThreshold THEN Value(state.waterThreshold)
    ELSE otsu(histogramOf(calculateWaterIndex(scene, state.waterIndex), state.aoi))

SignRule(indexName, x, t) == IF indexName = "Band8" THEN lt(x, t) ELSE gt(x, t)

\* C6: in every variant that has the custom-threshold setting, and on both
\* the custom and the Otsu path, a Sentinel-2 pixel is water when its index
\* is below the threshold for Band8 and above the threshold for every
\* other index.
C6_SignRule ==
    (OpticalClassified /\ AppliedThreshold.ok) =>
        \A p \in Positions :
            IndexAt(p).m =>
                (IsWater(water, p) <=>
                    SignRule(state.waterIndex, IndexAt(p).v, AppliedThreshold.v))

CustomAtTenth ==
    /\ OpticalClassified
    /\ state.useCustomThreshold
    /\ state.waterThreshold = Rat(1, 10)

\* C7 (as stated): with the custom threshold enabled and set to 0.1, a
\* pixel of index 0.3 is water and a pixel of index -0.2 is not, whatever
\* the histogram, and no Otsu estimation is made.
C7_CustomThresholdPixels ==
    CustomAtTenth =>
        /\ otsuCalls = 0
        /\ \A p \in Positions :
              IndexAt(p).m =>
                  /\ IndexAt(p).v = Rat(3, 10) => IsWater(water, p)
                  /\ IndexAt(p).v = Rat(-1, 5) => ~IsWater(water, p)

\* C7 (amended): the same, for every water index other than Band8.
C7_CustomThresholdPixelsNotBand8 ==
    (CustomAtTenth /\ state.waterIndex # "Band8") =>
        /\ otsuCalls = 0
        /\ \A p \in Positions :
              IndexAt(p).m =>
                  /\ IndexAt(p).v = Rat(3, 10) => IsWater(water, p)
                  /\ IndexAt(p).v = Rat(-1, 5) => ~IsWater(water, p)

\* both pixel values occur and the histogram over the AOI is empty
C7_Witness ==
    /\ CustomAtTenth
    /\ state.waterIndex = "MNDWI"
    /\ state.aoi = {}
    /\ \E p, q \in Positions :
          /\ IndexAt(p).m /\ IndexAt(p).v = Rat(3, 10) /\ IsWater(water, p)
          /\ IndexAt(q).m /\ IndexAt(q).v = Rat(-1, 5) /\ ~IsWater(water, q)

\* ------------------------------------------------------------------------
\* Geometry of the run: one row of cells; cell p covers the metres
\* (p - 1) * CellMetres .. p * CellMetres, and edge e lies at e * CellMetres
\* ------------------------------------------------------------------------
Width == 9
CellMetres == 10
Cells == 1..Width

\* geometry.buffer(metres), metres >= 0, as the cells it reaches
bufferCells(geometry, metres) ==
    {p \in Cells : \E q \in geometry : Abs(p - q) * CellMetres <= metres}

\* state.aoi.buffer(500)
expandedAOI(st) == bufferCells(st.aoi, 500)

MinInt(S) == CHOOSE x \in S : \A y \in S : x <= y
MaxInt(S) == CHOOSE x \in S : \A y \in S : y <= x
MaxOf(S) == CHOOSE x \in S : \A y \in S : lte(y, x)

\* ------------------------------------------------------------------------
\* Cleanup of the water mask
\* ------------------------------------------------------------------------
\* p and q lie in one run of valid cells of one value
SameRun(img, p, q) ==
    \A k \in MinInt({p, q})..MaxInt({p, q}) : img.px[k].m /\ img.px[k].v = img.px[p].v

\* image.connectedPixelCount(maxSize, true)
connectedPixelCount(img, maxSize) ==
    IF img.err THEN ErrImage
    ELSE [err |-> FALSE,
          px |-> [p \in DOMAIN img.px |->
                    [v |-> Num(MinInt({maxSize,
                                       Cardinality({q \in DOMAIN img.px : SameRun(img, p, q)})})),
                     m |-> img.px[p].m]]]

\* waterMask.updateMask(connected.gte(size))
removeSmall(waterMask, size) ==
    updateMask(waterMask, imgGte(connectedPixelCount(waterMask, size), Value(Num(size))))

\* the valid values within radius cells of p
Window(img, p, radius) ==
    {img.px[q].v : q \in {r \in DOMAIN img.px : Abs(r - p) <= radius /\ img.px[r].m}}

\* one pass of focal_max: valid wherever the window holds valid data
focalMaxOnce(img, radius) ==
    IF img.err THEN ErrImage
    ELSE [err |-> FALSE,
          px |-> [p \in DOMAIN img.px |->
                    IF Window(img, p, radius) = {} THEN [v |-> Zero, m |-> FALSE]
                    ELSE [v |-> MaxOf(Window(img, p, radius)), m |-> TRUE]]]

focalMinOnce(img, radius) ==
    IF img.err THEN ErrImage
    ELSE [err |-> FALSE,
          px |-> [p \in DOMAIN img.px |->
                    IF Window(img, p, radius) = {} THEN [v |-> Zero, m |-> FALSE]
                    ELSE [v |-> MinOf(Window(img, p, radius)), m |-> TRUE]]]

RECURSIVE focal_max(_, _, _)
focal_max(img, radius, iterations) ==
    IF iterations = 0 THEN img
    ELSE focal_max(focalMaxOnce(img, radius), radius, iterations - 1)

RECURSIVE focal_min(_, _, _)
focal_min(img, radius, iterations) ==
    IF iterations = 0 THEN img
    ELSE focal_min(focalMinOnce(img, radius), radius, iterations - 1)

\* focal_max then focal_min with one kernel
smooth(img, radius, iterations) ==
    focal_min(focal_max(img, radius, iterations), radius, iterations)

\* a cleanup that smooths first and removes the small patches afterwards
cleanedMaskSmoothFirst(v, waterMask, st) ==
    CASE v = "v100" -> removeSmall(smooth(waterMask, 1, 1), 100)
      [] v = "v101" -> removeSmall(waterMask, st.waterBodySizeThreshold)
      [] v = "v110" -> removeSmall(smooth(waterMask, st.smoothingKernelSize, 1),
                                   st.waterBodySizeThreshold)
      [] v = "v200" -> removeSmall(smooth(waterMask, st.smoothingKernelSize,
                                          st.smoothingIterations),
                                   st.waterBodySizeThreshold)

\* the mask vectorizeWaterMask vectorizes:
\* 1.0.0 fixed size 100 and circle(1), one iteration;
\* 1.0.1 small-patch removal only;
\* 1.1.0 configured size and radius, one iteration;
\* 2.0.0 configured size, radius and iterations
cleanedMask(v, waterMask, st) ==
    CASE v = "v100" -> smooth(removeSmall(waterMask, 100), 1, 1)
      [] v = "v101" -> removeSmall(waterMask, st.waterBodySizeThreshold)
      [] v = "v110" -> smooth(removeSmall(waterMask, st.waterBodySizeThreshold),
                              st.smoothingKernelSize, 1)
      [] v = "v200" -> smooth(removeSmall(waterMask, st.waterBodySizeThreshold),
                              st.smoothingKernelSize, st.smoothingIterations)

\* ------------------------------------------------------------------------
\* Vectorization
\* ------------------------------------------------------------------------
\* a feature collection whose computation fails in the backend
ErrCollection == [err |-> TRUE, fs |-> {}]
Collection(fs) == [err |-> FALSE, fs |-> fs]

\* the run of p, cut to the geometry
ZoneOf(img, geometry, p) ==
    {q \in geometry : \A k \in MinInt({p, q})..MaxInt({p, q}) :
                          k \in geometry /\ img.px[k].m /\ img.px[k].v = img.px[p].v}

\* feat.geometry().coordinates().get(0) of the polygon of a zone: its corners
\* in the order of the ring, the first one repeated at the end
ringOf(cells) ==
    <<MinInt(cells) - 1, MaxInt(cells), MaxInt(cells), MinInt(cells) - 1, MinInt(cells) - 1>>

\* image.reduceToVectors({geometry: geometry, geometryType: 'polygon'}): one
\* polygon per zone of equal value, with the properties label and count
reduceToVectors(img, geometry) ==
    IF img.err THEN ErrCollection
    ELSE Collection({[cells |-> ZoneOf(img, geometry, p),
                      ring |-> ringOf(ZoneOf(img, geometry, p)),
                      label |-> img.px[p].v,
                      count |-> Cardinality(ZoneOf(img, geometry, p))] :
                        p \in {q \in geometry \cap DOMAIN img.px : img.px[q].m}})

\* ee.Geometry.LineString(ring of the polygon): the edges the ring visits
lineOf(feat) == {feat.ring[i] : i \in 1..Len(feat.ring)}

\* collection.filter(ee.Filter.gt(property, x)): a feature without the
\* property does not pass
filterGt(fc, property, x) ==
    IF fc.err THEN ErrCollection
    ELSE Collection({f \in fc.fs : property \in DOMAIN f /\ f[property] > x})

\* the edge at e lies within metres (a rational) of the geometry's outline
NearOutline(e, geometry, metres) ==
    \E b \in {MinInt(geometry) - 1, MaxInt(geometry)} :
        lte(Num(Abs(e - b) * CellMetres), metres)

\* line.intersects(geometry.buffer(d).difference(geometry.buffer(-d)), margin)
intersectsCorridor(line, geometry, d, margin) ==
    \E e \in line : NearOutline(e, geometry, add(d, margin))

\* line.intersects(geometry, margin)
intersectsGeometry(line, geometry, margin) ==
    \E e \in line : MinInt(geometry) - 1 <= e /\ e <= MaxInt(geometry)

\* the distance handed to geometry.buffer() for the corridor:
\* state.coastalBuffer * 1000 in 1.1.0, state.coastalBuffer in 2.0.0
corridorDistance(v, st) ==
    IF v = "v110" THEN multiply(st.coastalBuffer, Num(1000)) ELSE st.coastalBuffer

\* the lines vectorizeWaterMask keeps:
\* 1.0.0 every line; 1.0.1 the lines meeting the geometry;
\* 1.1.0 polygons with area > 1e4, then the lines within coastalBuffer km
\* (+ 2 m) of the outline; 2.0.0 the lines within coastalBuffer m (+ 0.5 m)
coastalLines(v, polygons, geometry, st) ==
    IF polygons.err THEN ErrCollection
    ELSE CASE v = "v100" -> Collection({[line |-> lineOf(f)] : f \in polygons.fs})
           [] v = "v101" ->
                Collection({[line |-> lineOf(f)] :
                    f \in {g \in polygons.fs :
                              intersectsGeometry(lineOf(g), geometry, Rat(1, 2))}})
           [] v = "v110" ->
                Collection({[line |-> lineOf(f)] :
                    f \in {g \in filterGt(polygons, "area", 10000).fs :
                              intersectsCorridor(lineOf(g), geometry,
                                  corridorDistance(v, st), Num(2))}})
           [] v = "v200" ->
                Collection({[line |-> lineOf(f)] :
                    f \in {g \in polygons.fs :
                              intersectsCorridor(lineOf(g), geometry,
                                  corridorDistance(v, st), Rat(1, 2))}})

vectorizeWaterMask(v, waterMask, geometry, st) ==
    coastalLines(v, reduceToVectors(cleanedMask(v, waterMask, st), geometry), geometry, st)

\* shoreline.map(f -> f.intersection(state.aoi)).filterBounds(state.aoi)
clipShoreline(shoreline, aoi) ==
    IF shoreline.err THEN ErrCollection
    ELSE Collection({g \in {[line |-> {e \in f.line : MinInt(aoi) - 1 <= e /\ e <= MaxInt(aoi)}] :
                                f \in shoreline.fs} : g.line # {}})

\* ------------------------------------------------------------------------
\* Scenes the catalogue can return, and areas the user can draw
\* ------------------------------------------------------------------------
MaxRuns == 2
\* callbacks waiting at the same time
MaxPending == 1

SeaPixel(m) ==
    CASE m = "sentinel1" -> CHOOSE c \in S1Pixels : c.VV = Num(-20) /\ c.VH = Num(-30)
      [] m = "sentinel2" -> CHOOSE c \in S2Pixels : c.B8 = Rat(3, 10)
      [] m = "landsat" -> CHOOSE c \in LandsatPixels : c.SR_B3 = Num(2)

LandPixel(m) ==
    CASE m = "sentinel1" -> CHOOSE c \in S1Pixels : c.VV = Num(-10)
      [] m = "sentinel2" -> CHOOSE c \in S2Pixels : c.B8 = Zero
      [] m = "landsat" -> CHOOSE c \in LandsatPixels : c.SR_B5 = Num(4)

BrightPixel(m) ==
    CASE m = "sentinel1" -> CHOOSE c \in S1Pixels : c.VV = Num(10)
      [] m = "sentinel2" -> CHOOSE c \in S2Pixels : c.B8 = Rat(-1, 5)
      [] m = "landsat" -> CHOOSE c \in LandsatPixels : c.SR_B6 = One /\ c.SR_B5 = Zero

\* sea on the cells 1..5, a pond of one cell on 7, bright ground on 8
CoastScene(m) ==
    [err |-> FALSE,
     px |-> [p \in Cells |-> IF p <= 5 \/ p = 7 THEN SeaPixel(m)
                             ELSE IF p = 8 THEN BrightPixel(m) ELSE LandPixel(m)]]

\* one kind of ground everywhere: every band has a single value
UniformScene(m) == [err |-> FALSE, px |-> [p \in Cells |-> LandPixel(m)]]

\* collection.median() / collection.mean() of the scenes found
Composites(m) == {CoastScene(m), UniformScene(m)}

\* collection.size(): no scene, or some
SceneCounts == {0, 1}

\* polygons the user can draw
AOIs == {2..(Width - 1), 3..(Width - 1)}

\* positions of the minimum-size slider the runs are made with
SizeValues == {5, 10}

\* composite.clip(geometry), all bands
clipScene(img, geometry) ==
    IF img.err THEN ErrImage
    ELSE [err |-> FALSE,
          px |-> [p \in DOMAIN img.px |->
                    [img.px[p] EXCEPT !.m = img.px[p].m /\ p \in geometry]]]

IsNull(x) == "null" \in DOMAIN x

\* ------------------------------------------------------------------------
\* displayResults
\* ------------------------------------------------------------------------
RawLayer(m, st) ==
    IF IsNull(st.rawImage) THEN <<>>
    ELSE <<[name |-> "raw", method |-> m, data |-> st.rawImage]>>

WaterLayer(m, waterImg) ==
    <<[name |-> "water", method |-> m, data |-> selfMasked(waterImg)]>>

ShorelineLayer(m, shoreline) ==
    <<[name |-> "shoreline", method |-> m, data |-> shoreline]>>

\* state.results[method] = {water, shoreline}; map.layers().reset(); the raw
\* image, the water and the shoreline are added
displayResults(m, waterImg, shoreline, st) ==
    [state |-> With(st, "results",
                    With(st.results, m, [water |-> waterImg, shoreline |-> shoreline])),
     layers |-> RawLayer(m, st) \o WaterLayer(m, waterImg) \o ShorelineLayer(m, shoreline)]

\* what one piece of run code leaves behind
Result(st, layers, calls, outcome, image, mask, n, next) ==
    [state |-> st, layers |-> layers, calls |-> calls, outcome |-> outcome,
     image |-> image, mask |-> mask, otsu |-> n, next |-> next]

\* ------------------------------------------------------------------------
\* processImagery of 1.0.0, 1.0.1 and 1.1.0: processSentinel1,
\* processSentinel2 or processLandsat inside try / catch
\* ------------------------------------------------------------------------
displayed(d, image, r) ==
    Result(d.state, d.layers, <<"detectWater", "vectorizeWaterMask", "displayResults">>,
           "complete", image, r.mask, r.otsu, {})

publish(m, image, r, shoreline, st) ==
    displayed(displayResults(m, clip(r.mask, st.aoi), clipShoreline(shoreline, st.aoi), st),
              image, r)

vectorizeStep(v, m, image, r, st, layers) ==
    IF r.thrown
    THEN Result(st, layers, <<"detectWater">>, "error", image, ErrImage, 0, {})
    ELSE publish(m, image, r, vectorizeWaterMask(v, r.mask, expandedAOI(st), st), st)

classifyStored(v, m, image, st, layers) ==
    vectorizeStep(v, m, image, detectWater(v, m, image, st), st, layers)

\* state.rawImage = image, then the classification
classifyStep(v, m, image, st, layers) ==
    classifyStored(v, m, image, With(st, "rawImage", image), layers)

\* the variant that stores the composite before it looks at the scene count
processImageryEager(v, m, count, composite, st, layers) ==
    IF count = 0
    THEN Result(With(st, "rawImage", clipScene(composite, expandedAOI(st))), layers,
                <<>>, "noImagery", NoImage, NoImage, 0, {})
    ELSE classifyStep(v, m, clipScene(composite, expandedAOI(st)), st, layers)

processImagery(v, m, count, composite, st, layers) ==
    IF count = 0
    THEN Result(st, layers, <<>>, "noImagery", NoImage, NoImage, 0, {})
    ELSE classifyStep(v, m, clipScene(composite, expandedAOI(st)), st, layers)

\* ------------------------------------------------------------------------
\* 2.0.0: process*WithProgress and the two callbacks it registers
\* ------------------------------------------------------------------------
\* the closure of the callback: what the run function captured; config is
\* the state object as it was when processImagery was called, kept for the
\* properties only (the callbacks read the live state object)
SizeCallbackOf(id, m, st) ==
    [kind |-> "size", id |-> id, m |-> m, expandedAOI |-> expandedAOI(st),
     waterMask |-> NoImage, shoreline |-> Collection({}), config |-> st]

FinalCallbackOf(cb, waterMask, shoreline) ==
    [kind |-> "final", id |-> cb.id, m |-> cb.m, expandedAOI |-> cb.expandedAOI,
     waterMask |-> waterMask, shoreline |-> shoreline, config |-> cb.config]

\* the preview of a large area: map.layers().reset(), raw image and water
previewLayers(large, m, waterMask, st, layers) ==
    IF large THEN RawLayer(m, st) \o WaterLayer(m, clip(waterMask, st.aoi)) ELSE layers

vectorizing(cb, image, r, shoreline, st, layers) ==
    Result(st, layers, <<"detectWater", "vectorizeWaterMask">>, "vectorizing",
           image, r.mask, r.otsu, {FinalCallbackOf(cb, r.mask, shoreline)})

\* the variant that goes on to the vectorization after a throw
classified200KeepsGoing(cb, large, image, r, st, layers) ==
    IF r.thrown
    THEN Result(st, layers, <<"detectWater">>, "thrown", image, ErrImage, 0,
                {FinalCallbackOf(cb, ErrImage, ErrCollection)})
    ELSE vectorizing(cb, image, r,
                     vectorizeWaterMask("v200", r.mask, cb.expandedAOI, st), st,
                     previewLayers(large, cb.m, r.mask, st, layers))

classified200(cb, large, image, r, st, layers) ==
    IF r.thrown
    THEN Result(st, layers, <<"detectWater">>, "thrown", image, ErrImage, 0, {})
    ELSE vectorizing(cb, image, r,
                     vectorizeWaterMask("v200", r.mask, cb.expandedAOI, st), st,
                     previewLayers(large, cb.m, r.mask, st, layers))

\* state.rawImage is set; state.aoi.area(1) throws when the area was reset
composed200(cb, large, image, st, layers) ==
    IF st.aoi = {}
    THEN Result(st, layers, <<>>, "thrown", image, NoImage, 0, {})
    ELSE classified200(cb, large, image, detectWater("v200", cb.m, image, st), st, layers)

\* the variant that stores the composite before it looks at the scene count
sizeCallbackEager(cb, count, large, composite, st, layers) ==
    IF count = 0
    THEN Result(With(st, "rawImage", clipScene(composite, cb.expandedAOI)), layers,
                <<>>, "noImagery", NoImage, NoImage, 0, {})
    ELSE composed200(cb, large, clipScene(composite, cb.expandedAOI),
                     With(st, "rawImage", clipScene(composite, cb.expandedAOI)), layers)

\* function(count) handed to collection.size().evaluate
sizeCallback(cb, count, large, composite, st, layers) ==
    IF count = 0
    THEN Result(st, layers, <<>>, "noImagery", NoImage, NoImage, 0, {})
    ELSE composed200(cb, large, clipScene(composite, cb.expandedAOI),
                     With(st, "rawImage", clipScene(composite, cb.expandedAOI)), layers)

displayed200(d, cb) ==
    Result(d.state, d.layers, <<"displayResults">>, "complete",
           NoImage, cb.waterMask, 0, {})

\* function() handed to shoreline.size().evaluate; with the area reset,
\* intersection(null) either throws or yields objects that fail in the backend
finalCallback(cb, strict, st, layers) ==
    IF st.aoi = {}
    THEN IF strict
         THEN Result(st, layers, <<>>, "thrown", NoImage, cb.waterMask, 0, {})
         ELSE displayed200(displayResults(cb.m, ErrImage, ErrCollection, st), cb)
    ELSE displayed200(displayResults(cb.m, clip(cb.waterMask, st.aoi),
                                     clipShoreline(cb.shoreline, st.aoi), st), cb)

\* resetState()
resetState(v) == InitialState(v)

\* ------------------------------------------------------------------------
\* Specification of the application: the handlers of the panels and the
\* callbacks of the backend
\* ------------------------------------------------------------------------
Init ==
    /\ hist = [histogram |-> <<>>, bucketMeans |-> <<>>]
    /\ otsuResult = EEError
    /\ opc = "idle"
    /\ variant \in Variants
    /\ state = InitialState(variant)
    /\ method = "sentinel1"
    /\ scene = NoImage
    /\ water = NoImage
    /\ otsuCalls = 0
    /\ cpc = "idle"
    /\ screen = "setup"
    /\ mapLayers = <<>>
    /\ pending = {}
    /\ runs = 0
    /\ run = NoRun
    /\ steps = <<>>
    /\ cleaned = [err |-> FALSE, px |-> <<>>]
    /\ lines = NoLines
    /\ region = {}
    /\ features = {}
    /\ area = 0
    /\ scale = 0
    /\ assetId = ""

\* outcomes that end a run
EndMarks == {"noImagery", "error", "thrown", "complete"}

\* what a piece of run code adds to the history of its run
StepsOf(r) == IF r.outcome \in EndMarks THEN r.calls \o <<r.outcome>> ELSE r.calls

\* the panel a synchronous run ends on
ScreenAfter(outcome) == IF outcome = "complete" THEN "results" ELSE outcome

\* the polygon is confirmed: state.aoi = geometry
DrawAOI ==
    /\ screen = "setup"
    /\ \E a \in AOIs : state' = With(state, "aoi", a)
    /\ UNCHANGED <<otsuVars, vecVars, scaleVars, assetVars, variant, method, scene, water, otsuCalls, cpc, runVars>>

\* the minimum-size slider of the advanced settings
SetWaterBodySizeThreshold ==
    /\ screen = "setup"
    /\ variant # "v100"
    /\ \E x \in SizeValues : state' = With(state, "waterBodySizeThreshold", x)
    /\ UNCHANGED <<otsuVars, vecVars, scaleVars, assetVars, variant, method, scene, water, otsuCalls, cpc, runVars>>

\* the custom-threshold checkbox of the advanced settings
SetUseCustomThreshold ==
    /\ screen = "setup"
    /\ variant # "v100"
    /\ \E b \in BOOLEAN : state' = With(state, "useCustomThreshold", b)
    /\ UNCHANGED <<otsuVars, vecVars, scaleVars, assetVars, variant, method, scene, water, otsuCalls, cpc, runVars>>

\* 'Process Images' of 1.0.0, 1.0.1 and 1.1.0: the whole run is one handler
ProcessImagery ==
    /\ screen = "setup"
    /\ variant # "v200"
    /\ state.aoi # {}
    /\ runs < MaxRuns
    /\ \E m \in Methods, count \in SceneCounts :
         \E composite \in Composites(m) :
           \E r \in {processImagery(variant, m, count, composite, state, mapLayers)} :
              /\ state' = r.state
              /\ mapLayers' = r.layers
              /\ method' = m
              /\ scene' = r.image
              /\ water' = r.mask
              /\ otsuCalls' = r.otsu
              /\ cpc' = r.outcome
              /\ screen' = ScreenAfter(r.outcome)
              /\ run' = [id |-> runs + 1, count |-> count, calls |-> r.calls]
              /\ steps' = Append(steps, StepsOf(r))
    /\ runs' = runs + 1
    /\ UNCHANGED <<otsuVars, vecVars, scaleVars, assetVars, variant, pending>>

\* 'Process Images' of 2.0.0: the progress panel is shown and the scene
\* count is requested
ProcessImageryWithProgress ==
    /\ screen = "setup"
    /\ variant = "v200"
    /\ state.aoi # {}
    /\ runs < MaxRuns
    /\ Cardinality(pending) < MaxPending
    /\ \E m \in Methods :
          /\ pending' = pending \cup {SizeCallbackOf(runs + 1, m, state)}
          /\ method' = m
    /\ scene' = NoImage
    /\ water' = NoImage
    /\ otsuCalls' = 0
    /\ cpc' = "pending"
    /\ screen' = "processing"
    /\ run' = [id |-> runs + 1, count |-> -1, calls |-> <<>>]
    /\ steps' = Append(steps, <<>>)
    /\ runs' = runs + 1
    /\ UNCHANGED <<otsuVars, vecVars, scaleVars, assetVars, variant, state, mapLayers>>

\* the scene count arrives
SizeCallback ==
    \E cb \in {c \in pending : c.kind = "size"} :
      \E count \in SceneCounts, large \in BOOLEAN :
        \E composite \in Composites(cb.m) :
          \E r \in {sizeCallback(cb, count, large, composite, state, mapLayers)} :
             /\ state' = r.state
             /\ mapLayers' = r.layers
             /\ method' = cb.m
             /\ scene' = r.image
             /\ water' = r.mask
             /\ otsuCalls' = r.otsu
             /\ cpc' = r.outcome
             /\ screen' = IF r.outcome = "noImagery" /\ screen = "processing" /\ runs = cb.id
                          THEN "noImagery" ELSE screen
             /\ run' = [id |-> cb.id, count |-> count, calls |-> r.calls]
             /\ steps' = [steps EXCEPT ![cb.id] = @ \o StepsOf(r)]
             /\ pending' = (pending \ {cb}) \cup r.next
             /\ UNCHANGED <<otsuVars, vecVars, scaleVars, assetVars, variant, runs>>

\* the shoreline count arrives
FinalCallback ==
    \E cb \in {c \in pending : c.kind = "final"} :
      \E strict \in BOOLEAN :
        \E r \in {finalCallback(cb, strict, state, mapLayers)} :
           /\ state' = r.state
           /\ mapLayers' = r.layers
           /\ method' = cb.m
           /\ water' = r.mask
           /\ cpc' = r.outcome
           /\ screen' = IF r.outcome = "complete" THEN "results" ELSE screen
           /\ run' = [id |-> cb.id, count |-> 1, calls |-> r.calls]
           /\ steps' = [steps EXCEPT ![cb.id] = @ \o StepsOf(r)]
           /\ pending' = pending \ {cb}
           /\ UNCHANGED <<otsuVars, vecVars, scaleVars, assetVars, variant, runs, scene, otsuCalls>>

\* 'Cancel' of the progress panel: showMethodSelection(); callbacks stay
Cancel ==
    /\ variant = "v200"
    /\ screen = "processing"
    /\ screen' = "setup"
    /\ steps' = [steps EXCEPT ![runs] = @ \o <<"cancel">>]
    /\ UNCHANGED <<otsuVars, vecVars, scaleVars, assetVars, classVars, mapLayers, pending, runs, run>>

\* 'Try Different Method', 'Change Dates', 'Back'
Back ==
    /\ screen \in {"results", "noImagery", "error"}
    /\ screen' = "setup"
    /\ UNCHANGED <<otsuVars, vecVars, scaleVars, assetVars, classVars, mapLayers, pending, runs, run, steps>>

\* 'New Analysis' of 1.1.0 and 2.0.0: resetState(); showWelcome()
NewAnalysis ==
    /\ variant \in {"v110", "v200"}
    /\ screen = "results"
    /\ state' = resetState(variant)
    /\ mapLayers' = <<>>
    /\ screen' = "setup"
    /\ UNCHANGED <<otsuVars, vecVars, scaleVars, assetVars, variant, method, scene, water, otsuCalls, cpc, pending, runs, run,
                   steps>>

Next ==
    \/ DrawAOI
    \/ SetWaterBodySizeThreshold
    \/ SetUseCustomThreshold
    \/ ProcessImagery
    \/ ProcessImageryWithProgress
    \/ SizeCallback
    \/ FinalCallback
    \/ Cancel
    \/ Back
    \/ NewAnalysis

Spec == Init /\ [][Next]_vars

\* ------------------------------------------------------------------------
\* Properties of the runs
\* ------------------------------------------------------------------------
\* the step is a piece of run code: a synchronous run, the start of an
\* asynchronous one, or one of its callbacks
RunStep == <<run, cpc>>' # <<run, cpc>>

\* the last classification went through the estimator and the estimator
\* failed: its histogram had fewer than 2 buckets or no counts
EstimatorFailed == otsuCalls > 0 /\ water.err

\* C3: when the estimator is handed a histogram with fewer than 2 buckets or
\* a zero total, the classification fails: the run ends in the error outcome
\* and no water mask of it is stored
C3_EstimatorErrorFailsRun ==
    (run.calls # <<>> /\ EstimatorFailed) =>
        /\ cpc = "error"
        /\ IsNull(state.results[method]) \/ ~state.results[method].water.err

\* C8: a run whose catalogue query returns no scene ends in the no-imagery
\* outcome without a call of a classifier, of vectorizeWaterMask or of
\* displayResults, and leaves state.rawImage and state.results as they were
C8_ZeroScenesNoEffect ==
    [][(RunStep /\ run'.count = 0) =>
          /\ cpc' = "noImagery"
          /\ run'.calls = <<>>
          /\ state'.rawImage = state.rawImage
          /\ state'.results = state.results]_vars

\* a run found no scene after an earlier run had stored its composite and
\* its results
C8_Witness ==
    /\ run.count = 0
    /\ cpc = "noImagery"
    /\ ~IsNull(state.rawImage)
    /\ \E m \in Methods : ~IsNull(state.results[m])

\* C9: when a step after the composite fails, the run ends in a failure
\* outcome, state.results and state.rawImage are what they were before, and
\* the map has no new layer
C9_FailureKeepsState ==
    [][(RunStep /\ run'.calls # <<>> /\ (cpc' \in {"error", "thrown"} \/ water'.err)) =>
          /\ cpc' \in {"error", "thrown"}
          /\ state'.results = state.results
          /\ state'.rawImage = state.rawImage
          /\ mapLayers' = mapLayers]_vars

\* C10: a run that completes stores the cleaned mask, clipped to the drawn
\* area, as its water, and the coastal lines, intersected with the drawn
\* area, as its shoreline
C10_PublishedIsCleaned ==
    [][(RunStep /\ cpc' = "complete" /\ state.aoi # {}) =>
          /\ state'.results[method'].water =
                clip(cleanedMask(variant, water', state), state.aoi)
          /\ state'.results[method'].shoreline =
                clipShoreline(vectorizeWaterMask(variant, water', expandedAOI(state), state),
                              state.aoi)]_vars

\* the calls of a run in the order of the code
Canon == <<"detectWater", "vectorizeWaterMask", "displayResults">>

IsPrefix(s, t) == Len(s) <= Len(t) /\ \A i \in 1..Len(s) : s[i] = t[i]

NotCancel(x) == x # "cancel"

\* what the code of run id did, without the clicks on Cancel
History(id) == SelectSeq(steps[id], NotCancel)

Front(h) == SubSeq(h, 1, Len(h) - 1)

\* the calls are made in the order of the code, an end is the last entry,
\* and a run completes exactly when displayResults was reached
WellOrdered(h) ==
    \/ IsPrefix(h, Canon)
    \/ /\ h # <<>>
       /\ h[Len(h)] \in EndMarks
       /\ IsPrefix(Front(h), Canon)
       /\ h[Len(h)] = "complete" <=> Front(h) = Canon

\* C11: every run makes its calls in the order classification,
\* vectorization (with the cleanup), displayResults; displayResults comes
\* only after the two others of the same run, and nothing of a run executes
\* after the run has ended in done or in a failure
C11_StepsInOrder == \A id \in 1..Len(steps) : WellOrdered(History(id))

\* one asynchronous run threw in its classification and another went
\* through both callbacks to displayResults
C11_Witness ==
    /\ variant = "v200"
    /\ \E a, b \in 1..Len(steps) :
          /\ History(a) = <<"detectWater", "thrown">>
          /\ History(b) = Canon \o <<"complete">>

Range(h) == {h[i] : i \in 1..Len(h)}

\* Cancel was clicked while run id was on the progress panel
Cancelled(id) == id \in 1..Len(steps) /\ "cancel" \in Range(steps[id])

\* C13: after Cancel no later step of the cancelled run has an effect:
\* displayResults is not called for it, state.results and state.rawImage
\* stay, the map gets no layer and the panels stay as they are
C13_CancelStopsRun ==
    [][(RunStep /\ Cancelled(run'.id)) =>
          /\ "displayResults" \notin Range(run'.calls)
          /\ state'.results = state.results
          /\ state'.rawImage = state.rawImage
          /\ mapLayers' = mapLayers
          /\ screen' = screen]_vars

\* C14: the callbacks of a run work with the configuration processImagery
\* was called with: the classification reads the settings and the area of
\* that moment, and the published water is clipped to the area of that moment
C14_RunUsesStartConfig ==
    [][(RunStep /\ variant = "v200") =>
          \A cb \in pending \ pending' :
             /\ (cb.kind = "size" /\ run'.calls # <<>>) =>
                    water' = detectWater(variant, cb.m, scene', cb.config).mask
             /\ (cb.kind = "final" /\ cpc' = "complete") =>
                    state'.results[cb.m].water = clip(cb.waterMask, cb.config.aoi)]_vars

\* ------------------------------------------------------------------------
\* Termination of a run
\* ------------------------------------------------------------------------
\* ee's evaluate calls every callback it was given, once the backend answers
SpecFair == Spec /\ WF_vars(SizeCallback) /\ WF_vars(FinalCallback)

\* ends the user is told about: the results panel, the no-imagery panel,
\* the error panel of processImagery's catch
VisibleEnds == {"complete", "noImagery", "error"}

EndedVisibly(id) ==
    /\ id \in 1..Len(steps)
    /\ History(id) # <<>>
    /\ History(id)[Len(History(id))] \in VisibleEnds

\* C12: every run that was started reaches displayResults or a failure the
\* user is shown; none stays in an intermediate step for ever
C12_RunTerminates == \A id \in 1..MaxRuns : (id \in 1..Len(steps)) ~> EndedVisibly(id)

\* ------------------------------------------------------------------------
\* The panels: which handler shows which panel, and what the settings
\* widgets can write. A run is one step here ('processing' until it ends).
\* ------------------------------------------------------------------------
DateValues == {[value |-> "2024-06-01"]}
CompositeMethods == {"Median", "Mean"}

\* the method buttons: 1.0.0 and 1.1.0 show the date panel, 1.0.1 and 2.0.0
\* the advanced settings
PanelAfterMethod(v) == IF v \in {"v100", "v110"} THEN "dateCloud" ELSE "advanced"

\* 'Process Images' of the date panel
PanelAfterProcessImages(m) == IF m = "sentinel2" THEN "s2options" ELSE "processing"

\* 'Back' of the water-index panel
PanelAfterIndexBack(v) == IF v \in {"v100", "v101"} THEN "method" ELSE "dateCloud"

\* the panel that holds the button that started the run
PanelOfProcessButton(v, m) ==
    CASE v = "v101" -> "advanced"
      [] v = "v100" /\ m = "sentinel2" -> "s2options"
      [] OTHER -> "dateCloud"

\* where a run leaves the user: 1.0.0 and 1.0.1 append to the panel that is
\* shown, 1.1.0 and 2.0.0 show a results or a no-imagery panel
PanelsAfterRun(v, m) ==
    IF v \in {"v100", "v101"} THEN {PanelOfProcessButton(v, m)} ELSE {"results", "noImagery"}

panelRest == <<otsuVars, vecVars, scaleVars, assetVars, variant, scene, water, otsuCalls, mapLayers, pending, runs, run, steps>>

InitPanels ==
    /\ hist = [histogram |-> <<>>, bucketMeans |-> <<>>]
    /\ otsuResult = EEError
    /\ opc = "idle"
    /\ variant \in Variants
    /\ state = InitialState(variant)
    /\ method = "sentinel1"
    /\ scene = NoImage
    /\ water = NoImage
    /\ otsuCalls = 0
    /\ cpc = "idle"
    /\ screen = "welcome"
    /\ mapLayers = <<>>
    /\ pending = {}
    /\ runs = 0
    /\ run = NoRun
    /\ steps = <<>>
    /\ cleaned = [err |-> FALSE, px |-> <<>>]
    /\ lines = NoLines
    /\ region = {}
    /\ features = {}
    /\ area = 0
    /\ scale = 0
    /\ assetId = ""

\* 'Start Analysis'
StartAnalysis ==
    /\ screen = "welcome"
    /\ screen' = "drawAOI"
    /\ UNCHANGED <<panelRest, state, method, cpc>>

\* 'Confirm Selection': state.aoi = geometry; showMethodSelection()
ConfirmSelection ==
    /\ screen = "drawAOI"
    /\ \E a \in AOIs : state' = With(state, "aoi", a)
    /\ screen' = "method"
    /\ UNCHANGED <<panelRest, method, cpc>>

\* one of the three method buttons
MethodButton ==
    /\ screen = "method"
    /\ method' \in Methods
    /\ screen' = PanelAfterMethod(variant)
    /\ UNCHANGED <<panelRest, state, cpc>>

\* 'Back' of the method panel
MethodBack ==
    /\ screen = "method"
    /\ screen' = "drawAOI"
    /\ UNCHANGED <<panelRest, state, method, cpc>>

\* the votes slider (min 1, max 3, step 1), shown for Sentinel-1
SarVotesSlider ==
    /\ screen = "advanced"
    /\ method = "sentinel1"
    /\ \E x \in VoteValues : state' = With(state, "sarVotesRequired", x)
    /\ UNCHANGED <<panelRest, method, screen, cpc>>

\* the custom-threshold checkbox, shown for the optical methods
CustomThresholdBox ==
    /\ screen = "advanced"
    /\ method \in {"sentinel2", "landsat"}
    /\ \E b \in BOOLEAN : state' = With(state, "useCustomThreshold", b)
    /\ UNCHANGED <<panelRest, method, screen, cpc>>

\* 'Process with These Settings' of 1.0.1: processImagery(method)
ProcessWithTheseSettings ==
    /\ screen = "advanced"
    /\ variant = "v101"
    /\ screen' = "processing"
    /\ cpc' = "started"
    /\ UNCHANGED <<panelRest, state, method>>

\* 'Continue' of 1.1.0 and 2.0.0: showDateCloudSettings(method)
ContinueToDates ==
    /\ screen = "advanced"
    /\ variant \in {"v110", "v200"}
    /\ screen' = "dateCloud"
    /\ UNCHANGED <<panelRest, state, method, cpc>>

\* 'Back' of the advanced settings
AdvancedBack ==
    /\ screen = "advanced"
    /\ screen' = "method"
    /\ UNCHANGED <<panelRest, state, method, cpc>>

\* the start-date box
StartDateBox ==
    /\ screen = "dateCloud"
    /\ \E d \in DateValues :
          state' = With(state, "dateRange", [start |-> d, end |-> state.dateRange.end])
    /\ UNCHANGED <<panelRest, method, screen, cpc>>

\* the end-date box
EndDateBox ==
    /\ screen = "dateCloud"
    /\ \E d \in DateValues :
          state' = With(state, "dateRange", [start |-> state.dateRange.start, end |-> d])
    /\ UNCHANGED <<panelRest, method, screen, cpc>>

\* the composite-method select, shown for Sentinel-1 and Sentinel-2
CompositeSelect ==
    /\ screen = "dateCloud"
    /\ variant # "v100"
    /\ method \in {"sentinel1", "sentinel2"}
    /\ \E c \in CompositeMethods : state' = With(state, "compositeMethod", c)
    /\ UNCHANGED <<panelRest, method, screen, cpc>>

\* 'Process Images' of the date panel
ProcessImages ==
    /\ screen = "dateCloud"
    /\ screen' = PanelAfterProcessImages(method)
    /\ cpc' = IF method = "sentinel2" THEN cpc ELSE "started"
    /\ UNCHANGED <<panelRest, state, method>>

\* 'Advanced Settings' of the date panel of 1.1.0 and 2.0.0
DateCloudToAdvanced ==
    /\ screen = "dateCloud"
    /\ variant \in {"v110", "v200"}
    /\ screen' = "advanced"
    /\ UNCHANGED <<panelRest, state, method, cpc>>

\* 'Back' of the date panel of 1.0.0 and 1.0.1
DateCloudBack ==
    /\ screen = "dateCloud"
    /\ variant \in {"v100", "v101"}
    /\ screen' = "method"
    /\ UNCHANGED <<panelRest, state, method, cpc>>

\* a water-index button: state.waterIndex = idx.value; processImagery
IndexButton ==
    /\ screen = "s2options"
    /\ \E n \in IndexNames : state' = With(state, "waterIndex", n)
    /\ method' = "sentinel2"
    /\ screen' = "processing"
    /\ cpc' = "started"
    /\ UNCHANGED panelRest

\* 'Back' of the water-index panel
IndexBack ==
    /\ screen = "s2options"
    /\ screen' = PanelAfterIndexBack(variant)
    /\ UNCHANGED <<panelRest, state, method, cpc>>

\* the run is over
RunEnds ==
    /\ screen = "processing"
    /\ screen' \in PanelsAfterRun(variant, method)
    /\ cpc' = "idle"
    /\ UNCHANGED <<panelRest, state, method>>

\* 'Cancel' of the progress panel of 2.0.0
CancelRun ==
    /\ screen = "processing"
    /\ variant = "v200"
    /\ screen' = "method"
    /\ cpc' = "idle"
    /\ UNCHANGED <<panelRest, state, method>>

\* 'New Analysis': resetState(); showWelcome()
ResetAndWelcome ==
    /\ screen = "results"
    /\ state' = resetState(variant)
    /\ screen' = "welcome"
    /\ UNCHANGED <<panelRest, method, cpc>>

\* 'Try Different Method'
TryDifferentMethod ==
    /\ screen = "results"
    /\ screen' = "method"
    /\ UNCHANGED <<panelRest, state, method, cpc>>

\* 'Change Date Range' of the no-imagery panel
ChangeDates ==
    /\ screen = "noImagery"
    /\ screen' = "dateCloud"
    /\ UNCHANGED <<panelRest, state, method, cpc>>

NextPanels ==
    \/ StartAnalysis
    \/ ConfirmSelection
    \/ MethodButton
    \/ MethodBack
    \/ SarVotesSlider
    \/ CustomThresholdBox
    \/ ProcessWithTheseSettings
    \/ ContinueToDates
    \/ AdvancedBack
    \/ StartDateBox
    \/ EndDateBox
    \/ CompositeSelect
    \/ ProcessImages
    \/ DateCloudToAdvanced
    \/ DateCloudBack
    \/ IndexButton
    \/ IndexBack
    \/ RunEnds
    \/ CancelRun
    \/ ResetAndWelcome
    \/ TryDifferentMethod
    \/ ChangeDates

SpecPanels == InitPanels /\ [][NextPanels]_vars

\* ------------------------------------------------------------------------
\* Properties of the panels
\* ------------------------------------------------------------------------
\* C15: state.sarVotesRequired is 1, 2 or 3 in every state the user can
\* reach, so the SAR classifier never runs with another value (1.0.0 has
\* no such setting and always asks for two votes)
C15_SarVotesInRange == RequiredVotes \in {1, 2, 3}

\* a Sentinel-1 run was started after the slider was moved to its maximum
C15_Witness ==
    /\ cpc = "started"
    /\ method = "sentinel1"
    /\ variant # "v100"
    /\ state.sarVotesRequired = 3

\* the panels one click away from panel p
ButtonTargets(v, p) ==
    CASE p = "welcome" -> {"drawAOI"}
      [] p = "drawAOI" -> {"method"}
      [] p = "method" -> {PanelAfterMethod(v), "drawAOI"}
      [] p = "advanced" ->
           {"method"} \cup (IF v = "v101" THEN {"processing"} ELSE {"dateCloud"})
      [] p = "dateCloud" ->
           {PanelAfterProcessImages(m) : m \in Methods}
             \cup (IF v \in {"v100", "v101"} THEN {"method"} ELSE {"advanced"})
      [] p = "s2options" -> {"processing", PanelAfterIndexBack(v)}
      [] p = "processing" ->
           UNION {PanelsAfterRun(v, m) : m \in Methods}
             \cup (IF v = "v200" THEN {"method"} ELSE {})
      [] p = "results" -> {"welcome", "method"}
      [] p = "noImagery" -> {"dateCloud"}

RECURSIVE PanelsFrom(_, _)
PanelsFrom(v, ps) ==
    IF UNION {ButtonTargets(v, p) : p \in ps} \subseteq ps
    THEN ps
    ELSE PanelsFrom(v, ps \cup UNION {ButtonTargets(v, p) : p \in ps})

\* every step of the panels follows a button of the panel it starts on
PanelsFollowButtons == [][screen' # screen => screen' \in ButtonTargets(variant, screen)]_vars

\* C19: in 1.0.1 the date panel and the water-index panel can be reached
\* from the welcome panel by some sequence of clicks
C19_DatePanelReachable ==
    (variant = "v101" /\ screen = "welcome") =>
        {"dateCloud", "s2options"} \subseteq PanelsFrom(variant, {screen})

\* ------------------------------------------------------------------------
\* vectorizeWaterMask on its own: every binary mask of the row, the cleanup
\* settings the sliders offer, and the geometries a run can pass
\* ------------------------------------------------------------------------
KernelValues == {1, 2}
IterationValues == {1, 2}
Geometries == {1..Width, 2..(Width - 1)}

\* a mask as the classifiers return it: 0 or 1 at every cell
BinaryMask(W) == [err |-> FALSE, px |-> [p \in Cells |-> [v |-> Bit(p \in W), m |-> TRUE]]]
Masks == {BinaryMask(W) : W \in SUBSET Cells}

\* the cleanup settings a generation reads
CleanupSettings(v) ==
    CASE v = "v100" -> {InitialState(v)}
      [] v = "v101" ->
           {With(InitialState(v), "waterBodySizeThreshold", t) : t \in SizeValues}
      [] v = "v110" ->
           {Merge(InitialState(v), [waterBodySizeThreshold |-> t, smoothingKernelSize |-> k]) :
               t \in SizeValues, k \in KernelValues}
      [] v = "v200" ->
           {Merge(InitialState(v), [waterBodySizeThreshold |-> t, smoothingKernelSize |-> k,
                                    smoothingIterations |-> n]) :
               t \in SizeValues, k \in KernelValues, n \in IterationValues}

InitVectorize ==
    /\ hist = [histogram |-> <<>>, bucketMeans |-> <<>>]
    /\ otsuResult = EEError
    /\ opc = "idle"
    /\ variant \in Variants
    /\ state \in CleanupSettings(variant)
    /\ method = "sentinel2"
    /\ scene = NoImage
    /\ water \in Masks
    /\ otsuCalls = 0
    /\ cpc = "ready"
    /\ screen = "setup"
    /\ mapLayers = <<>>
    /\ pending = {}
    /\ runs = 0
    /\ run = NoRun
    /\ steps = <<>>
    /\ cleaned = [err |-> FALSE, px |-> <<>>]
    /\ lines = NoLines
    /\ region \in Geometries
    /\ features = {}
    /\ area = 0
    /\ scale = 0
    /\ assetId = ""

\* the first statements of vectorizeWaterMask, up to reduceToVectors
Cleanup ==
    /\ cpc = "ready"
    /\ cleaned' = cleanedMask(variant, water, state)
    /\ cpc' = "cleaned"
    /\ UNCHANGED <<otsuVars, runVars, variant, state, method, scene, water, otsuCalls, lines, region, features, scaleVars, assetVars>>

\* the same statements on the mask they produced; water keeps that mask
CleanupAgain ==
    /\ cpc = "cleaned"
    /\ cleaned' = cleanedMask(variant, cleaned, state)
    /\ water' = cleaned
    /\ cpc' = "cleanedTwice"
    /\ UNCHANGED <<otsuVars, runVars, variant, state, method, scene, otsuCalls, lines, region, features, scaleVars, assetVars>>

\* vectorizeWaterMask(waterMask, geometry)
Vectorize ==
    /\ cpc = "ready"
    /\ cleaned' = cleanedMask(variant, water, state)
    /\ lines' = vectorizeWaterMask(variant, water, region, state)
    /\ cpc' = "vectorized"
    /\ UNCHANGED <<otsuVars, runVars, variant, state, method, scene, water, otsuCalls, region, features, scaleVars, assetVars>>

NextVectorize == Cleanup \/ CleanupAgain \/ Vectorize

SpecVectorize == InitVectorize /\ [][NextVectorize]_vars

\* ------------------------------------------------------------------------
\* Properties of vectorizeWaterMask
\* ------------------------------------------------------------------------
\* the two ends of the geometry: its outline
Outline(g) == {MinInt(g) - 1, MaxInt(g)}

\* C16: every line vectorizeWaterMask returns touches the outline of the
\* geometry; the outline of water that lies inside, a cell or more away
\* from the outline, is not returned
C16_LinesAreCoastal ==
    (cpc = "vectorized" /\ ~lines.err) =>
        \A f \in lines.fs : f.line \cap Outline(region) # {}

\* the same image: the same mask, and the same value wherever it is valid
SameImage(a, b) ==
    /\ a.err = b.err
    /\ DOMAIN a.px = DOMAIN b.px
    /\ \A p \in DOMAIN a.px :
          /\ a.px[p].m = b.px[p].m
          /\ a.px[p].m => a.px[p].v = b.px[p].v

\* C18: the cleanup of a mask that the cleanup produced, with the same
\* settings, is that mask
C18_CleanupIdempotent == cpc = "cleanedTwice" => SameImage(cleaned, water)

\* the kernel radius and the iterations the header of 1.0.1 announces
HeaderKernel == 2
HeaderIterations == 2

\* C20: in 1.0.1 the mask that is vectorized is the mask after small-patch
\* removal, smoothed with radius 2 by 2 iterations of focal_max, then focal_min
C20_SmoothedIn101 ==
    (variant = "v101" /\ cpc = "cleaned") =>
        SameImage(cleaned,
                  smooth(removeSmall(water, state.waterBodySizeThreshold),
                         HeaderKernel, HeaderIterations))

\* ------------------------------------------------------------------------
\* An area of interest on land
\* ------------------------------------------------------------------------
\* no cell of the area holds water: only the two kinds of ground
OnLand(img, aoi) ==
    /\ ~img.err
    /\ aoi # {}
    /\ \A p \in aoi : img.px[p] \in {LandPixel(method), BrightPixel(method)}

\* C17: when the composite holds no water inside the area of interest the
\* classification succeeds and marks no pixel of the area as water, so that
\* the run ends with an empty shoreline and without an error
C17_LandGivesNoWater ==
    (cpc \in {"classified", "thrown"} /\ OnLand(scene, state.aoi)) =>
        /\ cpc = "classified"
        /\ ~water.err
        /\ WaterSet(water) \cap state.aoi = {}

\* ------------------------------------------------------------------------
\* The custom threshold and the Landsat classifier
\* ------------------------------------------------------------------------
\* C21: with 'Use custom threshold' ticked, the Landsat mask is the AWEI
\* index compared with state.waterThreshold, and no Otsu threshold is
\* estimated for the run
C21_LandsatCustomThreshold ==
    (cpc \in {"classified", "thrown"} /\ method = "landsat"
       /\ HasField(state, "useCustomThreshold") /\ state.useCustomThreshold) =>
        /\ cpc = "classified"
        /\ otsuCalls = 0
        /\ water = imgGt(aweiImage(scene), Value(state.waterThreshold))

\* ------------------------------------------------------------------------
\* Order and parameters of the cleanup
\* ------------------------------------------------------------------------
\* the generations whose vectorizeWaterMask removes small patches and smooths
Smoothing == {"v100", "v110", "v200"}

\* what each generation passes to the two steps
MinSizeOf(v, st) == IF v = "v100" THEN 100 ELSE st.waterBodySizeThreshold
RadiusOf(v, st) == IF v = "v100" THEN 1 ELSE st.smoothingKernelSize
PassesOf(v, st) == IF v = "v200" THEN st.smoothingIterations ELSE 1

\* the run of valid cells of one value around p
RunOf(img, p) == {q \in DOMAIN img.px : SameRun(img, p, q)}

\* no valid run of water is shorter than size
NoSmallWater(img, size) ==
    \A p \in DOMAIN img.px : IsWater(img, p) => Cardinality(RunOf(img, p)) >= size

\* C22: where both are done, the small patches are removed before the
\* smoothing: the mask produced is the smoothing of a mask that holds no
\* water component below the minimum size
C22_RemovalBeforeSmoothing ==
    (cpc = "cleaned" /\ variant \in Smoothing) =>
        /\ NoSmallWater(removeSmall(water, MinSizeOf(variant, state)), MinSizeOf(variant, state))
        /\ cleaned = smooth(removeSmall(water, MinSizeOf(variant, state)),
                            RadiusOf(variant, state), PassesOf(variant, state))

\* a mask with a patch below the minimum size and a water body that stays
C22_Witness ==
    /\ cpc = "cleaned"
    /\ variant \in Smoothing
    /\ \E p \in Cells : IsWater(water, p) /\ Cardinality(RunOf(water, p)) < MinSizeOf(variant, state)
    /\ \E p \in Cells : IsWater(removeSmall(water, MinSizeOf(variant, state)), p)

\* the generations whose advanced settings show the two smoothing sliders
SmoothingSliders == {"v101", "v110", "v200"}

\* C23: where the smoothing sliders exist, the smoothing is focal_max and
\* then focal_min, each state.smoothingIterations times with radius
\* state.smoothingKernelSize
C23_SmoothingUsesSettings ==
    (cpc = "cleaned" /\ variant \in SmoothingSliders) =>
        SameImage(cleaned,
                  smooth(removeSmall(water, state.waterBodySizeThreshold),
                         state.smoothingKernelSize, state.smoothingIterations))

\* ------------------------------------------------------------------------
\* The coastal corridor
\* ------------------------------------------------------------------------
\* the generations whose vectorizeWaterMask builds the corridor
CorridorBuilders == {"v110", "v200"}

\* the positions an edge of a line can take
Edges == 0..Width

\* C24: the corridor reaches state.coastalBuffer kilometres to either side
\* of the outline of the geometry: an edge lies in it exactly when it lies
\* within 1000 * state.coastalBuffer metres of the outline
C24_CorridorInKilometres ==
    (cpc = "vectorized" /\ variant \in CorridorBuilders) =>
        \A e \in Edges :
            NearOutline(e, region, corridorDistance(variant, state))
              <=> NearOutline(e, region, multiply(state.coastalBuffer, Num(1000)))

\* ------------------------------------------------------------------------
\* The LineString mapping of vectorizeWaterMask on arbitrary polygon rings
\* ------------------------------------------------------------------------
\* coordinates a vertex of a ring can have
RingCoordinates == {0, 4, Width}

\* vertices of the rings handed in
MaxRing == 3

\* features handed in at once
MaxPolygons == 2

\* ee.Geometry.LineString needs two positions: the shortest ring handed in
MinRing == 2

\* the least number of vertices of a valid ring
ValidRing == 3

AreaValues == {5000, 20000}

Rings == UNION {[1..n -> RingCoordinates] : n \in MinRing..MaxRing}

PolygonFeatures == {[ring |-> r, area |-> a] : r \in Rings, a \in AreaValues}

\* the collections handed in: up to MaxPolygons features
RECURSIVE SetsUpTo(_)
SetsUpTo(n) ==
    IF n = 0 THEN {{}}
    ELSE SetsUpTo(n - 1) \cup {P \cup {f} : P \in SetsUpTo(n - 1), f \in PolygonFeatures}

PolygonSets == SetsUpTo(MaxPolygons)

InitRings ==
    /\ hist = [histogram |-> <<>>, bucketMeans |-> <<>>]
    /\ otsuResult = EEError
    /\ opc = "idle"
    /\ variant \in Variants
    /\ state = InitialState(variant)
    /\ method = "sentinel2"
    /\ scene = NoImage
    /\ water = NoImage
    /\ otsuCalls = 0
    /\ cpc = "ready"
    /\ screen = "setup"
    /\ mapLayers = <<>>
    /\ pending = {}
    /\ runs = 0
    /\ run = NoRun
    /\ steps = <<>>
    /\ cleaned = [err |-> FALSE, px |-> <<>>]
    /\ lines = NoLines
    /\ region \in Geometries
    /\ features \in PolygonSets
    /\ area = 0
    /\ scale = 0
    /\ assetId = ""

\* the statements of vectorizeWaterMask after reduceToVectors:
\* polygons.map(feat -> LineString of the ring, isCoastal).filter(isCoastal)
MapPolygons ==
    /\ cpc = "ready"
    /\ lines' = coastalLines(variant, Collection(features), region, state)
    /\ cpc' = "mapped"
    /\ UNCHANGED <<otsuVars, runVars, variant, state, method, scene, water, otsuCalls,
                   cleaned, region, features, scaleVars, assetVars>>

NextRings == MapPolygons

SpecRings == InitRings /\ [][NextRings]_vars

\* the features whose ring has at least three vertices
ValidPolygons == {f \in features : Len(f.ring) >= ValidRing}

CaseLabels == <<"sentinel2", "sentinel1", "landsat", "default">>
CaseScales == <<10, 10, 15, 10>>

\* the label the switch jumps to
CaseOf(m) ==
    IF \E i \in 1..(Len(CaseLabels) - 1) : CaseLabels[i] = m
    THEN CHOOSE i \in 1..(Len(CaseLabels) - 1) : CaseLabels[i] = m
    ELSE Len(CaseLabels)

\* switch (method) { case ...: baseScale = x; ... } without break: every
\* assignment from the label on runs, the last one stays
baseScaleOf(m) ==
    LET ran == SubSeq(CaseScales, CaseOf(m), Len(CaseScales))
    IN  ran[Len(ran)]

\* ee.Number(a).gt(b): 1 or 0
gtNumber(a, b) == IF a > b THEN 1 ELSE 0

\* getAdaptiveScale(geometry, method), geometry.area() being a km2:
\* 1.0.1 and 2.0.0 return from the case; 1.1.0 computes
\* gt(1000) * 30 + (gt(100) * 20 + baseScale)
getAdaptiveScale(v, a, m) ==
    IF v = "v110"
    THEN gtNumber(a, 1000) * 30 + (gtNumber(a, 100) * 20 + baseScaleOf(m))
    ELSE CaseScales[CaseOf(m)]

\* the scale vectorizeWaterMask hands to reduceToVectors
vectorizeScale(v, a, m) ==
    CASE v = "v100" -> 30
      [] v = "v101" -> getAdaptiveScale(v, a, m)
      [] v = "v110" -> getAdaptiveScale(v, a, "sentinel2")
      [] v = "v200" -> 5

\* areas of the geometry in km2, to either side of the two limits
AreaKm2Values == {1, 100, 101, 500, 1000, 1001, 5000}

\* the method names getAdaptiveScale can be handed
ScaleMethods == Methods \cup {"other"}

InitScale ==
    /\ hist = [histogram |-> <<>>, bucketMeans |-> <<>>]
    /\ otsuResult = EEError
    /\ opc = "idle"
    /\ variant \in Variants
    /\ state = InitialState(variant)
    /\ method \in ScaleMethods
    /\ scene = NoImage
    /\ water = NoImage
    /\ otsuCalls = 0
    /\ cpc = "ready"
    /\ screen = "setup"
    /\ mapLayers = <<>>
    /\ pending = {}
    /\ runs = 0
    /\ run = NoRun
    /\ steps = <<>>
    /\ cleaned = [err |-> FALSE, px |-> <<>>]
    /\ lines = NoLines
    /\ region = {}
    /\ features = {}
    /\ area \in AreaKm2Values
    /\ scale = 0
    /\ assetId = ""

scaleRest == <<otsuVars, runVars, vecVars, variant, state, method, scene, water, otsuCalls, area, assetVars>>

\* a call of getAdaptiveScale(geometry, method); 1.0.0 has no such function
GetAdaptiveScale ==
    /\ cpc = "ready"
    /\ variant # "v100"
    /\ scale' = getAdaptiveScale(variant, area, method)
    /\ cpc' = "scaled"
    /\ UNCHANGED scaleRest

\* vectorizeWaterMask up to the scale of its reduceToVectors, a sensor selected
VectorizeScale ==
    /\ cpc = "ready"
    /\ method \in Methods
    /\ scale' = vectorizeScale(variant, area, method)
    /\ cpc' = "vectorizing"
    /\ UNCHANGED scaleRest

NextScale == GetAdaptiveScale \/ VectorizeScale

SpecScale == InitScale /\ [][NextScale]_vars

\* the resolution of the sensor: 10 m for the Sentinels, 15 m for Landsat
NativeScale(m) == IF m = "landsat" THEN 15 ELSE 10

\* C26: in every generation the scale handed to reduceToVectors is the
\* resolution of the selected sensor, 10 m for sentinel1 and sentinel2 and
\* 15 m for landsat
C26_VectorizeAtSensorScale ==
    cpc = "vectorizing" => scale = NativeScale(method)

\* C27: in 1.1.0 getAdaptiveScale returns the base resolution of the method
\* up to 100 km2, 20 above 100 km2 and up to 1000 km2, 30 above 1000 km2
C27_AdaptiveScaleSteps ==
    (cpc = "scaled" /\ variant = "v110") =>
        scale = IF area <= 100 THEN NativeScale(method)
                ELSE IF area <= 1000 THEN 20 ELSE 30

\* ------------------------------------------------------------------------
\* 'Process Asset' of 1.1.0
\* ------------------------------------------------------------------------
\* the JavaScript a || b on numbers: 0 is falsy
orDefault(a, b) == IF a = Zero THEN b ELSE a

\* displayResults called without its fourth argument: state.results[method]
\* is set and map.layers().reset() has run when progressPanel.clear() throws
\* the TypeError
displayResultsNoPanel(m, waterImg, shoreline, st) ==
    [state |-> displayResults(m, waterImg, shoreline, st).state, layers |-> <<>>]

\* the try block of the onClick of 'Process Asset'
processAsset(v, image, st) ==
    displayResultsNoPanel("asset",
        clip(imgLt(image, Value(orDefault(st.waterThreshold, Rat(1, 5)))), st.aoi),
        clipShoreline(vectorizeWaterMask(v, imgLt(image, Value(orDefault(st.waterThreshold, Rat(1, 5)))),
                                         expandedAOI(st), st),
                      st.aoi),
        st)

\* band values of the asset
AssetValues == {Rat(1, 20), Rat(3, 20), Rat(3, 10)}

\* the cells the lower values of an asset cover
AssetShapes == {{}, 1..4, 4..Width, Cells}

\* ee.Image(assetId): an asset that does not exist, or one band over the row
AssetImages ==
    {ErrImage} \cup
    {[err |-> FALSE, px |-> [p \in Cells |-> [v |-> IF p \in W THEN lo ELSE Rat(3, 10), m |-> TRUE]]] :
        W \in AssetShapes, lo \in AssetValues}

\* the names the textbox can hold; the empty one is the untouched textbox
AssetIds == {"", "users/a/B08"}

\* the state object and the layers an earlier Sentinel-2 run left behind
EarlierRun(st) ==
    displayResults("sentinel2", clip(BinaryMask(1..4), st.aoi), Collection({}), st)

InitAsset ==
    /\ hist = [histogram |-> <<>>, bucketMeans |-> <<>>]
    /\ otsuResult = EEError
    /\ opc = "idle"
    /\ variant = "v110"
    /\ \E a \in AOIs, t \in ThresholdValues, earlier \in BOOLEAN :
         \E st \in {Merge(InitialState("v110"), [aoi |-> a, waterThreshold |-> t])} :
            IF earlier
            THEN state = EarlierRun(st).state /\ mapLayers = EarlierRun(st).layers
            ELSE state = st /\ mapLayers = <<>>
    /\ method = "asset"
    /\ scene \in AssetImages
    /\ water = NoImage
    /\ otsuCalls = 0
    /\ cpc = "ready"
    /\ screen = "method"
    /\ pending = {}
    /\ runs = 0
    /\ run = NoRun
    /\ steps = <<>>
    /\ cleaned = [err |-> FALSE, px |-> <<>>]
    /\ lines = NoLines
    /\ region = {}
    /\ features = {}
    /\ area = 0
    /\ scale = 0
    /\ assetId \in AssetIds

assetRest == <<otsuVars, vecVars, scaleVars, assetVars, variant, method, scene, water, otsuCalls,
               screen, pending, runs, run, steps>>

\* the onClick of 'Process Asset': without an id only the status changes;
\* otherwise the try block runs up to the TypeError of displayResults and
\* the catch shows 'Error processing asset: ...'
ProcessAsset ==
    /\ cpc = "ready"
    /\ IF assetId = ""
       THEN /\ cpc' = "noAssetId"
            /\ UNCHANGED <<state, mapLayers>>
       ELSE \E r \in {processAsset(variant, scene, state)} :
              /\ state' = r.state
              /\ mapLayers' = r.layers
              /\ cpc' = "error"
    /\ UNCHANGED assetRest

NextAsset == ProcessAsset

SpecAsset == InitAsset /\ [][NextAsset]_vars

\* the statuses shown in red
ErrorStatus == {"noAssetId", "error"}

\* C28: 'Process Asset' with a drawn AOI and an asset id ends with the
\* results published and no error; whenever it ends on an error status,
\* state.results and the layers of the map are what they were
C28_AssetPublishedOrUntouched ==
    [][(cpc = "ready" /\ cpc' # "ready") =>
          /\ (state.aoi # {} /\ assetId # "") =>
                /\ cpc' \notin ErrorStatus
                /\ HasField(state'.results, "asset")
                /\ \E i \in 1..Len(mapLayers') : mapLayers'[i].name = "water"
                /\ \E i \in 1..Len(mapLayers') : mapLayers'[i].name = "shoreline"
          /\ cpc' \in ErrorStatus =>
                /\ state'.results = state.results
                /\ mapLayers' = mapLayers]_vars

\* ------------------------------------------------------------------------
\* The coastal slope module: createSlopeAnalysisUI and calculateCoastalSlope
\* ------------------------------------------------------------------------
\* demSources: value and resolution of every entry
demSources ==
    {[value |-> "SRTM", resolution |-> 30], [value |-> "ALOS", resolution |-> 30],
     [value |-> "NASADEM", resolution |-> 30], [value |-> "COPERNICUS", resolution |-> 30],
     [value |-> "MERIT", resolution |-> 90]}

\* positions of the buffer slider (300 to 3000 m, 1000 at the start)
BufferDistances == {300, 1000, 3000}

\* clicks on 'Calculate Slope' followed
MaxClicks == 2

\* the state object createSlopeAnalysisUI creates
SlopeState ==
    [selectedDEM |-> Null, bufferDistance |-> 1000, slopeCalculated |-> FALSE,
     slopeImage |-> Null, coastalZone |-> Null, currentStep |-> 1]

\* the sample line of the welcome screen, an asset, an asset that does not exist
SampleShoreline == Collection({[line |-> {1, 2, 3}]})
Shorelines == {SampleShoreline, Collection({[line |-> {0, Width}]}), ErrCollection}

\* showResultsPage: state.currentStep = 3, the panel is cleared, then
\* state.slopeImage.reduceRegion(...) and stats.evaluate(callback); on a
\* null slopeImage the reduceRegion call throws a TypeError
showResultsPage(st, queue) ==
    IF IsNull(st.slopeImage)
    THEN [state |-> With(st, "currentStep", 3), thrown |-> TRUE, pending |-> queue]
    ELSE [state |-> With(st, "currentStep", 3), thrown |-> FALSE,
          pending |-> queue \cup {[kind |-> "stats", image |-> st.slopeImage,
                                   zone |-> st.coastalZone]}]

\* the statements of the try block of calculateCoastalSlope up to
\* state.slopeCalculated = true
slopeComputed(st, shoreline) ==
    Merge(st, [coastalZone |-> [of |-> shoreline, buffer |-> st.bufferDistance],
               slopeImage |-> [dem |-> st.selectedDEM, buffer |-> st.bufferDistance],
               slopeCalculated |-> TRUE])

SlopeLayer(st) == <<[name |-> "slope", method |-> st.selectedDEM.value, data |-> st.slopeImage]>>

\* calculateCoastalSlope(shoreline, state, map, contentPanel, callback): the
\* callback is its updateStatus. updateStatus('Calculating coastal slope
\* using ...') comes before the try block and has no isError, so the
\* callback calls showResultsPage at once; what that call throws leaves the
\* function. Otherwise the try block computes, and
\* updateStatus('Coastal slope analysis complete') calls showResultsPage again
calculateCoastalSlope(st, shoreline, layers, queue) ==
    IF showResultsPage(st, queue).thrown
    THEN [state |-> showResultsPage(st, queue).state, layers |-> layers, pending |-> queue,
          thrown |-> TRUE, calls |-> <<"showResultsPage">>]
    ELSE [state |-> showResultsPage(slopeComputed(showResultsPage(st, queue).state, shoreline),
                                    showResultsPage(st, queue).pending).state,
          layers |-> layers \o SlopeLayer(slopeComputed(st, shoreline)),
          pending |-> showResultsPage(slopeComputed(showResultsPage(st, queue).state, shoreline),
                                      showResultsPage(st, queue).pending).pending,
          thrown |-> FALSE, calls |-> <<"showResultsPage", "showResultsPage">>]

\* the script has run: showWelcomeScreen; no analysis panel exists yet
InitSlope ==
    /\ hist = [histogram |-> <<>>, bucketMeans |-> <<>>]
    /\ otsuResult = EEError
    /\ opc = "idle"
    /\ variant = "slope"
    /\ state = Null
    /\ method = "none"
    /\ scene = NoImage
    /\ water = NoImage
    /\ otsuCalls = 0
    /\ cpc = "ready"
    /\ screen = "welcome"
    /\ mapLayers = <<>>
    /\ pending = {}
    /\ runs = 0
    /\ run = NoRun
    /\ steps = <<>>
    /\ cleaned = [err |-> FALSE, px |-> <<>>]
    /\ lines = NoLines
    /\ region = {}
    /\ features = {}
    /\ area = 0
    /\ scale = 0
    /\ assetId = ""

slopeRest == <<otsuVars, scaleVars, assetVars, variant, method, scene, water, otsuCalls,
               cleaned, region, features, run>>

\* 'Try with example' or 'Load Shoreline Asset': loadSlopeAnalysis builds a
\* new panel with a new state object, the shoreline the only layer
LoadSlopeAnalysis ==
    /\ screen = "welcome"
    /\ \E shoreline \in Shorelines :
          /\ lines' = shoreline
          /\ mapLayers' = <<[name |-> "shoreline", method |-> "none", data |-> shoreline]>>
    /\ state' = SlopeState
    /\ screen' = "demSelection"
    /\ cpc' = "ready"
    /\ UNCHANGED <<slopeRest, pending, runs, steps>>

\* the DEM dropdown
SelectDEM ==
    /\ screen = "demSelection"
    /\ \E d \in demSources : state' = With(state, "selectedDEM", d)
    /\ UNCHANGED <<slopeRest, pending, runs, steps, lines, mapLayers, screen, cpc>>

\* 'Next: Configure Analysis', enabled once a DEM is selected
ShowAnalysisSettingsPage ==
    /\ screen = "demSelection"
    /\ ~IsNull(state.selectedDEM)
    /\ state' = With(state, "currentStep", 2)
    /\ screen' = "settings"
    /\ UNCHANGED <<slopeRest, pending, runs, steps, lines, mapLayers, cpc>>

\* the buffer slider of the settings page
BufferSlider ==
    /\ screen = "settings"
    /\ \E b \in BufferDistances : state' = With(state, "bufferDistance", b)
    /\ UNCHANGED <<slopeRest, pending, runs, steps, lines, mapLayers, screen, cpc>>

\* 'Back' of the settings page
ShowDEMSelectionPage ==
    /\ screen = "settings"
    /\ state' = With(state, "currentStep", 1)
    /\ screen' = "demSelection"
    /\ UNCHANGED <<slopeRest, pending, runs, steps, lines, mapLayers, cpc>>

\* 'Calculate Slope': the panel shows the loading text, then
\* calculateCoastalSlope runs with the callback
CalculateSlope ==
    /\ screen = "settings"
    /\ runs < MaxClicks
    /\ \E r \in {calculateCoastalSlope(state, lines, mapLayers, pending)} :
          /\ state' = r.state
          /\ mapLayers' = r.layers
          /\ pending' = r.pending
          /\ cpc' = IF r.thrown THEN "thrown" ELSE "complete"
          /\ steps' = Append(steps, r.calls)
    /\ screen' = "results"
    /\ runs' = runs + 1
    /\ UNCHANGED <<slopeRest, lines>>

\* 'Back to Welcome Screen' of the main panel
ShowWelcomeScreen ==
    /\ screen # "welcome"
    /\ screen' = "welcome"
    /\ mapLayers' = <<>>
    /\ UNCHANGED <<slopeRest, pending, runs, steps, lines, state, cpc>>

NextSlope ==
    \/ LoadSlopeAnalysis
    \/ SelectDEM
    \/ ShowAnalysisSettingsPage
    \/ BufferSlider
    \/ ShowDEMSelectionPage
    \/ CalculateSlope
    \/ ShowWelcomeScreen

SpecSlope == InitSlope /\ [][NextSlope]_vars

\* showResultsPage calls of the click
Entries(calls) == Cardinality({i \in 1..Len(calls) : calls[i] = "showResultsPage"})

\* state.currentStep of the panel, 0 before a panel exists
StepOf(st) == IF HasField(st, "currentStep") THEN st.currentStep ELSE 0

\* C29: the results page is entered only after calculateCoastalSlope has
\* completed: whenever state.currentStep becomes 3, state.slopeCalculated is
\* true and slopeImage and coastalZone are set; and one click on 'Calculate
\* Slope' enters the results page at most once
C29_ResultsAfterSlope ==
    [][/\ (StepOf(state') = 3 /\ StepOf(state) # 3) =>
            /\ state'.slopeCalculated
            /\ ~IsNull(state'.slopeImage)
            /\ ~IsNull(state'.coastalZone)
       /\ \A i \in 1..Len(steps') : Entries(steps'[i]) <= 1]_vars

\* ------------------------------------------------------------------------
\* progressiveShorelineVisualization of 2.0.0
\* ------------------------------------------------------------------------
\* sizes of the shoreline collection, to either side of the batch size limits
FeatureCounts == {0, 1, 100, 101, 250, 1001, 5001}

\* var batchSize = 100; if (count > 1000) 200; if (count > 5000) 500
batchSizeOf(count) == IF count > 5000 THEN 500 ELSE IF count > 1000 THEN 200 ELSE 100

\* Math.ceil(count / batchSize)
totalBatchesOf(count) == (count + batchSizeOf(count) - 1) \div batchSizeOf(count)

\* a call loadBatch(startIndex, endIndex, batchNumber)
BatchCall(startIndex, endIndex, batchNumber) ==
    [startIndex |-> startIndex, endIndex |-> endIndex, batchNumber |-> batchNumber]

\* a call that steps over one batch
loadBatchSkipping(b, count) ==
    BatchCall(b.startIndex + 2 * batchSizeOf(count),
              MinInt({b.startIndex + 3 * batchSizeOf(count), count}), b.batchNumber + 1)

\* loadBatch(startIndex + batchSize, Math.min(startIndex + 2*batchSize, count),
\* batchNumber + 1)
loadBatchNext(b, count) ==
    BatchCall(b.startIndex + batchSizeOf(count),
              MinInt({b.startIndex + 2 * batchSizeOf(count), count}), b.batchNumber + 1)

\* shoreline.toList(endIndex - startIndex, startIndex) of a collection of
\* count features, evaluated: the features from startIndex on, at most
\* endIndex - startIndex of them, as the indices [from, to)
toList(count, n, offset) ==
    [from |-> MinInt({offset, count}), to |-> MinInt({offset + n, count})]

\* the layer object after the batch: setEeObject for batch 1, merge after
mergedWith(data, b, fc) == IF b.batchNumber = 1 THEN <<fc>> ELSE Append(data, fc)

\* the requests that wait for their callback
Request(kind, b) == [kind |-> kind, call |-> b]
NoCall == BatchCall(0, 0, 0)

\* progressiveShorelineVisualization(shoreline, method) has been called: the
\* label is on the map and shoreline.size() is being evaluated
InitBatches ==
    /\ hist = [histogram |-> <<>>, bucketMeans |-> <<>>]
    /\ otsuResult = EEError
    /\ opc = "idle"
    /\ variant = "v200"
    /\ state = InitialState("v200")
    /\ method \in Methods
    /\ scene = NoImage
    /\ water = NoImage
    /\ otsuCalls = 0
    /\ cpc = "Loading shoreline features..."
    /\ screen = "label"
    /\ mapLayers = <<>>
    /\ pending = {Request("size", NoCall)}
    /\ runs = 0
    /\ \E count \in FeatureCounts : run = [id |-> 1, count |-> count, calls |-> <<>>]
    /\ steps = <<>>
    /\ cleaned = [err |-> FALSE, px |-> <<>>]
    /\ lines = NoLines
    /\ region = {}
    /\ features = {}
    /\ area = 0
    /\ scale = 0
    /\ assetId = ""

batchRest == <<otsuVars, vecVars, scaleVars, assetVars, variant, state, method, scene, water,
               otsuCalls, runs, run>>

\* the whole shoreline as one layer, the fallback of the error branches
WholeLayer == <<[name |-> "shoreline", method |-> method, data |-> <<toList(run.count, run.count, 0)>>]>>

\* the layer the batches are merged into
BatchLayer(data) == <<[name |-> "shoreline", method |-> method, data |-> data]>>

\* the callback of shoreline.size().evaluate
ShorelineSizeCallback ==
    /\ Request("size", NoCall) \in pending
    /\ \E error \in BOOLEAN :
         IF error
         THEN /\ cpc' = "Error loading shoreline"
              /\ mapLayers' = mapLayers \o WholeLayer
              /\ pending' = {Request("remove", NoCall)}
              /\ steps' = steps
         ELSE IF run.count = 0
         THEN /\ cpc' = "No shoreline features detected"
              /\ pending' = {Request("remove", NoCall)}
              /\ UNCHANGED <<mapLayers, steps>>
         ELSE /\ cpc' = "Loading shoreline features (k/n)"
              /\ mapLayers' = mapLayers \o BatchLayer(<<>>)
              /\ pending' = {Request("batch", BatchCall(0, MinInt({batchSizeOf(run.count), run.count}), 1))}
              /\ steps' = <<BatchCall(0, MinInt({batchSizeOf(run.count), run.count}), 1)>>
    /\ UNCHANGED <<batchRest, screen>>

\* the callback of batch.evaluate
BatchCallback ==
    \E r \in pending :
      /\ r.kind = "batch"
      /\ \E error \in BOOLEAN :
           IF error
           THEN /\ cpc' = "Error in batch"
                /\ mapLayers' = IF r.call.batchNumber = 1 THEN mapLayers \o WholeLayer ELSE mapLayers
                /\ pending' = {Request("remove", NoCall)}
           ELSE \E fc \in {toList(run.count, r.call.endIndex - r.call.startIndex, r.call.startIndex)} :
                /\ mapLayers' = IF fc.from = fc.to THEN mapLayers
                                ELSE [mapLayers EXCEPT ![Len(mapLayers)].data =
                                         mergedWith(mapLayers[Len(mapLayers)].data, r.call, fc)]
                /\ IF r.call.startIndex + batchSizeOf(run.count) < run.count
                   THEN /\ pending' = {Request("loadBatch", loadBatchNext(r.call, run.count))}
                        /\ cpc' = cpc
                   ELSE /\ pending' = {Request("remove", NoCall)}
                        /\ cpc' = "Shoreline visualization complete"
      /\ UNCHANGED <<batchRest, screen, steps>>

\* the timeout of 100 ms: loadBatch issues the next request
LoadBatch ==
    \E r \in pending :
      /\ r.kind = "loadBatch"
      /\ pending' = {Request("batch", r.call)}
      /\ steps' = Append(steps, r.call)
      /\ cpc' = "Loading shoreline features (k/n)"
      /\ UNCHANGED <<batchRest, screen, mapLayers>>

\* the timeout of 3000 ms: map.remove(loadingLabel)
RemoveLabel ==
    /\ Request("remove", NoCall) \in pending
    /\ pending' = {}
    /\ screen' = "noLabel"
    /\ UNCHANGED <<batchRest, cpc, mapLayers, steps>>

NextBatches == ShorelineSizeCallback \/ BatchCallback \/ LoadBatch \/ RemoveLabel

\* callbacks of evaluate and timeouts are called once they are due
SpecBatches == InitBatches /\ [][NextBatches]_vars /\ WF_vars(NextBatches)

ErrorLabels == {"Error loading shoreline", "Error in batch"}

\* batch requests not answered yet, or about to be issued
Outstanding == {r \in pending : r.kind \in {"batch", "loadBatch"}}

\* the batches answered so far
Answered == IF \E r \in pending : r.kind = "batch" THEN Len(steps) - 1 ELSE Len(steps)

\* the batches issued are consecutive from 0, numbered from 1, one at a time,
\* and every batch answered has been merged into the layer
BatchesInOrder ==
    /\ \A i \in 1..Len(steps) :
          /\ steps[i].batchNumber = i
          /\ i <= totalBatchesOf(run.count)
          /\ steps[i].startIndex = IF i = 1 THEN 0 ELSE steps[i - 1].endIndex
          /\ steps[i].startIndex < steps[i].endIndex
          /\ steps[i].endIndex <= run.count
    /\ Cardinality(Outstanding) <= 1
    /\ steps # <<>> =>
          /\ Len(mapLayers[Len(mapLayers)].data) = Answered
          /\ \A i \in 1..Answered :
                mapLayers[Len(mapLayers)].data[i] =
                    [from |-> steps[i].startIndex, to |-> steps[i].endIndex]

\* the last batch ended at count and nothing is outstanding
AllLoaded ==
    /\ Len(steps) = totalBatchesOf(run.count)
    /\ steps[Len(steps)].endIndex = run.count
    /\ Outstanding = {}

\* C30: with count > 0 and no batch error the batches [start, end) are
\* consecutive, disjoint and cover 0..count-1, are numbered 1..ceil(count /
\* batchSize), one is outstanding at a time, every batch is merged into the
\* layer, and the run ends with 'Shoreline visualization complete'
C30_BatchesCoverInOrder ==
    /\ [](cpc \notin ErrorLabels => BatchesInOrder)
    /\ [](cpc = "Shoreline visualization complete" => AllLoaded)
    /\ <>(run.count = 0 \/ cpc \in ErrorLabels \/ cpc = "Shoreline visualization complete")

C30_Witness ==
    /\ cpc = "Shoreline visualization complete"
    /\ Len(steps) >= 3
    /\ steps[Len(steps)].endIndex - steps[Len(steps)].startIndex < batchSizeOf(run.count)

====
